---- MODULE Spec2Model ----
(***************************************************************************)
(* Voice-Scheduler: the /api/submit-contact, /api/contacts and            *)
(* /api/transcribe handlers and lib/workspace.ts over the relational       *)
(* store, the field extractor (sanitizeInput, parseContactInfo), and the   *)
(* two client pipelines (components/VoiceRecorder.tsx and the Home page of *)
(* pages/index.tsx).  Strings are sequences of one-character strings.      *)
(***************************************************************************)
EXTENDS Integers, Sequences, FiniteSets, TLC

\* ------------------------------------------------------------------ bounds
\* number of HTTP requests issued in one run of the server model
MaxReq == 2
\* number of user gestures (clicks, edits) in one run of the client model
MaxClicks == 6

\* ------------------------------------------------------- program constants
MaxNameLen == 100
MaxEmailLen == 100
MaxCompanyLen == 200
MaxNotesLen == 1000
MinPhoneLen == 10
MaxPhoneLen == 15

\* ---------------------------------------------------------------- strings
Digits == {"0", "1", "2", "3", "4", "5", "6", "7", "8", "9"}
WhiteSpace == {" ", "\t", "\n"}
UpperCase == <<"A", "B", "C", "D", "E", "F", "G", "H", "I", "J", "K", "L", "M",
               "N", "O", "P", "Q", "R", "S", "T", "U", "V", "W", "X", "Y", "Z">>
LowerCase == <<"a", "b", "c", "d", "e", "f", "g", "h", "i", "j", "k", "l", "m",
               "n", "o", "p", "q", "r", "s", "t", "u", "v", "w", "x", "y", "z">>
LowerSet == {LowerCase[i] : i \in 1..26}

\* String.prototype.toLowerCase, one character
LowerChar(c) ==
  IF \E i \in 1..26 : UpperCase[i] = c
    THEN LowerCase[CHOOSE i \in 1..26 : UpperCase[i] = c]
    ELSE c

\* String.prototype.toLowerCase
ToLower(s) == [i \in 1..Len(s) |-> LowerChar(s[i])]

\* String.prototype.slice(0, n)
Slice(s, n) == IF Len(s) <= n THEN s ELSE SubSeq(s, 1, n)

RECURSIVE TrimLeft(_)
TrimLeft(s) ==
  IF s # <<>> /\ s[1] \in WhiteSpace THEN TrimLeft(Tail(s)) ELSE s

RECURSIVE TrimRight(_)
TrimRight(s) ==
  IF s # <<>> /\ s[Len(s)] \in WhiteSpace
    THEN TrimRight(SubSeq(s, 1, Len(s) - 1))
    ELSE s

\* String.prototype.trim
Trim(s) == TrimRight(TrimLeft(s))

\* keep the characters of s that are in the set keep (replace(/[^...]/g, ''))
RECURSIVE Keep(_, _)
Keep(s, keep) ==
  IF s = <<>> THEN <<>>
  ELSE IF s[1] \in keep THEN <<s[1]>> \o Keep(Tail(s), keep)
  ELSE Keep(Tail(s), keep)

\* String.prototype.startsWith
StartsWith(s, p) == Len(s) >= Len(p) /\ SubSeq(s, 1, Len(p)) = p

\* decimal rendering of a small natural number (template literal `${counter}`)
DigitSeq == <<"0", "1", "2", "3", "4", "5", "6", "7", "8", "9">>
RECURSIVE NumStr(_)
NumStr(n) ==
  IF n < 10 THEN <<DigitSeq[n + 1]>>
  ELSE NumStr(n \div 10) \o <<DigitSeq[(n % 10) + 1]>>

\* a string of n copies of the character c
Rep(c, n) == [i \in 1..n |-> c]

\* ------------------------------------------------- JSON values of a body
\* a body field is absent (undefined), a string, or a non-string JSON value
Undef == [t |-> "undefined", v |-> <<>>]
Str(s) == [t |-> "string", v |-> s]
Num == [t |-> "number", v |-> <<>>]

\* JavaScript truthiness of a body field
Truthy(f) == f.t = "number" \/ (f.t = "string" /\ f.v # <<>>)

\* --------------------------------------------- submit-contact: validation
PhoneChars == Digits \cup WhiteSpace \cup {"-", "(", ")"}

\* /^\+?[\d\s\-\(\)]{10,15}$/.test(s)
PhoneFormatOk(s) ==
  LET rest == IF s # <<>> /\ s[1] = "+" THEN Tail(s) ELSE s
  IN  /\ Len(rest) >= MinPhoneLen
      /\ Len(rest) <= MaxPhoneLen
      /\ \A i \in 1..Len(rest) : rest[i] \in PhoneChars

\* /^[^\s@]+@[^\s@]+\.[^\s@]+$/.test(s)
EmailFormatOk(s) ==
  \E a \in 1..Len(s) : \E d \in 1..Len(s) :
    /\ s[a] = "@"
    /\ s[d] = "."
    /\ a > 1
    /\ d > a + 1
    /\ d < Len(s)
    /\ \A i \in 1..Len(s) : i # a => (s[i] # "@" /\ s[i] \notin WhiteSpace)

\* validateContactData: the list of error messages, in the order pushed
NameErrors(data) ==
  IF ~Truthy(data.name) \/ data.name.t # "string" \/ Trim(data.name.v) = <<>>
    THEN <<"Name is required">>
  ELSE IF Len(data.name.v) > MaxNameLen
    THEN <<"Name must be less than 100 characters">>
  ELSE <<>>

PhoneErrors(data) ==
  IF ~Truthy(data.phone) \/ data.phone.t # "string" \/ Trim(data.phone.v) = <<>>
    THEN <<"Phone is required">>
  ELSE IF ~PhoneFormatOk(data.phone.v)
    THEN <<"Phone format is invalid">>
  ELSE <<>>

EmailErrors(data) ==
  IF Truthy(data.email) /\ data.email.t = "string" /\ ~EmailFormatOk(data.email.v)
    THEN <<"Email format is invalid">>
    ELSE <<>>

CompanyErrors(data) ==
  IF Truthy(data.company) /\ data.company.t = "string"
     /\ Len(data.company.v) > MaxCompanyLen
    THEN <<"Company name must be less than 200 characters">>
    ELSE <<>>

NotesErrors(data) ==
  IF Truthy(data.notes) /\ data.notes.t = "string"
     /\ Len(data.notes.v) > MaxNotesLen
    THEN <<"Notes must be less than 1000 characters">>
    ELSE <<>>

validateContactData(data) ==
  LET errors == NameErrors(data) \o PhoneErrors(data) \o EmailErrors(data)
                \o CompanyErrors(data) \o NotesErrors(data)
  IN  [isValid |-> errors = <<>>, errors |-> errors]

\* ------------------------------------------- submit-contact: sanitization
\* the phone as forwarded and persisted
CleanPhone(phone) ==
  LET cleanPhone == Trim(Keep(phone, Digits \cup WhiteSpace \cup {"+", "-", "(", ")"}))
  IN  IF StartsWith(cleanPhone, <<"+", "1">>) THEN Tail(cleanPhone)
      ELSE IF StartsWith(cleanPhone, <<"+">>) THEN Tail(cleanPhone)
      ELSE IF Len(cleanPhone) = 10 THEN <<"1">> \o cleanPhone
      ELSE cleanPhone

\* data.f ? data.f.trim()... : ''  calls a string method on a truthy value:
\* it throws a TypeError when the value is not a string
OptThrows(f) == Truthy(f) /\ f.t # "string"

\* sanitizeContactData; threw: the call raised a TypeError
sanitizeContactData(data) ==
  IF OptThrows(data.email) \/ OptThrows(data.company) \/ OptThrows(data.notes)
    THEN [threw |-> TRUE, name |-> <<>>, phone |-> <<>>, email |-> <<>>,
          company |-> <<>>, notes |-> <<>>]
    ELSE [threw |-> FALSE,
          name |-> Slice(Trim(data.name.v), MaxNameLen),
          phone |-> CleanPhone(data.phone.v),
          email |-> IF Truthy(data.email)
                      THEN Slice(ToLower(Trim(data.email.v)), MaxEmailLen) ELSE <<>>,
          company |-> IF Truthy(data.company)
                        THEN Slice(Trim(data.company.v), MaxCompanyLen) ELSE <<>>,
          notes |-> IF Truthy(data.notes)
                      THEN Slice(Trim(data.notes.v), MaxNotesLen) ELSE <<>>]

\* ------------------------------------------------------- request bodies
sAnnLee == <<"A", "n", "n", " ", "L", "e", "e">>
sPhonePlain == <<"5", "5", "5", "1", "2", "3", "4", "5", "6", "7">>
sPhoneParen == <<"(", "5", "5", "5", ")", " ", "1", "2", "3", "-", "4", "5", "6", "7">>
sEmailMixed == <<"A", "n", "n", "@", "X", ".", "i", "o">>
sAcme == <<"A", "c", "m", "e">>
sNotes == <<" ", "h", "i", " ">>

BaseBody == [name |-> Str(sAnnLee), phone |-> Str(sPhonePlain), email |-> Undef,
             company |-> Undef, notes |-> Undef]

\* the JSON bodies a caller may post, by name
BodyNames == {"plain", "full", "noName", "blankName", "noPhone", "badPhone",
              "badEmail", "longCompany", "longNotes", "numEmail"}

BodyOf(b) ==
  CASE b = "plain" -> BaseBody
    [] b = "full" -> [name |-> Str(sAnnLee), phone |-> Str(sPhoneParen),
                      email |-> Str(sEmailMixed), company |-> Str(sAcme),
                      notes |-> Str(sNotes)]
    [] b = "noName" -> [BaseBody EXCEPT !.name = Undef]
    [] b = "blankName" -> [BaseBody EXCEPT !.name = Str(<<" ">>)]
    [] b = "noPhone" -> [BaseBody EXCEPT !.phone = Undef]
    [] b = "badPhone" -> [BaseBody EXCEPT !.phone = Str(<<"a", "b", "c">>)]
    [] b = "badEmail" -> [BaseBody EXCEPT !.email = Str(<<"a", "n", "n", "@", "x">>)]
    [] b = "longCompany" -> [BaseBody EXCEPT !.company = Str(Rep("x", MaxCompanyLen + 1))]
    [] b = "longNotes" -> [BaseBody EXCEPT !.notes = Str(Rep("x", MaxNotesLen + 1))]
    [] b = "numEmail" -> [BaseBody EXCEPT !.email = Num]

\* ------------------------------------------------------ lib/workspace.ts
Roles == {"OWNER", "ADMIN", "MEMBER", "VIEWER"}

permissions(userRole) ==
  CASE userRole = "OWNER" -> {"read", "write", "admin", "delete"}
    [] userRole = "ADMIN" -> {"read", "write", "admin"}
    [] userRole = "MEMBER" -> {"read", "write"}
    [] userRole = "VIEWER" -> {"read"}

\* mutant: ADMIN is granted every action
canUserPerformActionAdminAll(userRole, action) ==
  action \in permissions(IF userRole = "ADMIN" THEN "OWNER" ELSE userRole)

canUserPerformAction(userRole, action) == action \in permissions(userRole)

\* name.toLowerCase().replace(/[^a-z0-9]+/g, '-').replace(/(^-|-$)/g, '')
RECURSIVE DashRuns(_)
DashRuns(s) ==
  IF s = <<>> THEN <<>>
  ELSE IF s[1] \in LowerSet \cup Digits THEN <<s[1]>> \o DashRuns(Tail(s))
  ELSE IF Len(s) > 1 /\ s[2] \notin LowerSet \cup Digits THEN DashRuns(Tail(s))
  ELSE <<"-">> \o DashRuns(Tail(s))

StripDashes(s) ==
  LET a == IF s # <<>> /\ s[1] = "-" THEN Tail(s) ELSE s
  IN  IF a # <<>> /\ a[Len(a)] = "-" THEN SubSeq(a, 1, Len(a) - 1) ELSE a

Slugify(name) == StripDashes(DashRuns(ToLower(name)))

\* `${slug}-${counter}`
SlugWithCounter(slug, counter) == slug \o <<"-">> \o NumStr(counter)

\* ------------------------------------------------------------ the store
VARIABLES
  workspaces,     \* table workspaces: id -> [slug, contactCount]
  memberships,    \* table user_workspaces: set of [userId, workspaceId, role]
  contacts,       \* table contacts: id -> row
  usageLogs,      \* table usage_logs: set of rows
  nextId,         \* the next primary key the store hands out
  ghlConfigured,  \* process.env.GHL_WEBHOOK_URL is set
  openaiKey,      \* process.env.OPENAI_API_KEY ('' when unset)
  reqs            \* the HTTP requests: slot -> handler activation

\* ---------------------------------------------------- the client pages
VARIABLES
  page,           \* the component mounted in the browser
  ui,             \* its React state, refs and pending asynchronous work
  posts,          \* the POSTs to /api/submit-contact it has sent
  clicks          \* user gestures made so far

serverVars == <<workspaces, memberships, contacts, usageLogs, nextId,
                ghlConfigured, openaiKey, reqs>>
clientVars == <<page, ui, posts, clicks>>
vars == <<workspaces, memberships, contacts, usageLogs, nextId, ghlConfigured,
          openaiKey, reqs, page, ui, posts, clicks>>

\* sessions: NoSession is a request without a session; EmptyId a session whose
\* user id is '' (token.sub || token.email || '')
NoSession == "none"
EmptyId == ""
Users == {"u1", "u2", "u3"}
Sessions == Users \cup {NoSession, EmptyId}

sMy == <<"M", "y">>
sAnn == <<"A", "n", "n">>
sWorkspace == <<" ", "W", "o", "r", "k", "s", "p", "a", "c", "e">>

\* session.user.name; <<>> when the user has none
UserName(u) == IF u = "u2" THEN sAnn ELSE <<>>

\* `${session.user.name || 'My'} Workspace`
DefaultWorkspaceName(u) ==
  (IF UserName(u) # <<>> THEN UserName(u) ELSE sMy) \o sWorkspace

NoWs == [id |-> 0, role |-> "NONE"]
NoResp == [code |-> 0, error |-> "", success |-> FALSE, status |-> 0,
           contactId |-> 0, data |-> <<>>]

\* res.status(code).json({error})
ErrResp(code, error) == [NoResp EXCEPT !.code = code, !.error = error]

\* the ContactData of /api/transcribe before anything is extracted
NoContactData == [name |-> <<>>, phone |-> <<>>, email |-> <<>>,
                  company |-> <<>>, notes |-> <<>>]

\* values of process.env.OPENAI_API_KEY
sSecretKey == <<"s", "k", "-", "1">>
sOtherKey == <<"p", "k", "-", "1">>
sPlaceholderKey ==
  <<"y", "o", "u", "r", "_", "o", "p", "e", "n", "a", "i", "_", "a", "p", "i",
    "_", "k", "e", "y", "_", "h", "e", "r", "e">>
sKeyPrefix == <<"s", "k", "-">>
ApiKeys == {<<>>, sPlaceholderKey, sOtherKey, sSecretKey}

Idle == [kind |-> "none", method |-> "", user |-> NoSession, pc |-> "idle",
         body |-> "", id |-> 0, query |-> "", uniqueSlug |-> <<>>,
         counter |-> 0, workspace |-> NoWs, userRole |-> "NONE",
         calls |-> <<>>, webhookResponse |-> 0, savedContact |-> 0,
         sttCalls |-> 0, transcript |-> <<>>, contactData |-> NoContactData,
         usageLog |-> 0, writes |-> {}, resp |-> NoResp]

\* the handler returned: the response is sent, the locals of the workspace
\* lookup are gone
Done(rec, resp) ==
  [rec EXCEPT !.pc = "done", !.resp = resp, !.uniqueSlug = <<>>, !.counter = 0]

\* ------------------------------------- webhook outcomes (the environment)
\* an upstream HTTP status, or NetErr: no response at all (timeout, network)
NetErr == 0
Outcomes == {200, 302, 400, NetErr}

\* axios validateStatus: status >= 200 && status < 400
validateStatus(status) == status >= 200 /\ status < 400

\* the attempt resolved (a response arrived and its status validates)
Resolved(outcome) == outcome # NetErr /\ validateStatus(outcome)

\* error.response?.status || 500
SurfacedStatus(outcome) == IF outcome = NetErr THEN 500 ELSE outcome

\* --------------------------------------------- ensureUserHasWorkspace
\* getUserWorkspaces(userId)
getUserWorkspaces(u) == {m \in memberships : m.userId = u}

\* the continuation of the handler once ensureUserHasWorkspace has returned
\* w (NoWs for null) or thrown
ResumeSubmit(rec, w, threw) ==
  LET r1 == [rec EXCEPT !.workspace = IF threw THEN NoWs ELSE w]
  IN  IF ~ghlConfigured
        THEN Done(r1, ErrResp(500, "Webhook configuration missing"))
        ELSE [r1 EXCEPT !.pc = "form"]

ResumeContacts(rec, w, threw) ==
  IF threw THEN Done(rec, ErrResp(500, "Internal Server Error"))
  ELSE IF w = NoWs THEN Done(rec, ErrResp(500, "Workspace not found"))
  ELSE [rec EXCEPT !.workspace = w, !.pc = "role"]

\* /api/transcribe: a throw reaches the handler's catch; without a workspace
\* the usage log is skipped and the handler answers 200
ResumeTranscribe(rec, w, threw) ==
  IF threw THEN Done(rec, ErrResp(500, "Failed to transcribe audio"))
  ELSE IF w = NoWs THEN Done(rec, [NoResp EXCEPT !.code = 200, !.success = TRUE])
  ELSE [rec EXCEPT !.workspace = w, !.pc = "tlog"]

Resume(rec, w, threw) ==
  IF rec.kind = "submit" THEN ResumeSubmit(rec, w, threw)
  ELSE IF rec.kind = "contacts" THEN ResumeContacts(rec, w, threw)
  ELSE ResumeTranscribe(rec, w, threw)

\* ensureUserHasWorkspace up to its first query
EnsureRead(r) ==
  /\ reqs[r].pc = "ws_read"
  /\ LET rec == reqs[r]
     IN  reqs' = [reqs EXCEPT ![r] =
           IF rec.user = EmptyId THEN Resume(rec, NoWs, FALSE)
           ELSE IF getUserWorkspaces(rec.user) = {}
             THEN [rec EXCEPT !.pc = "ws_slug",
                              !.uniqueSlug = Slugify(DefaultWorkspaceName(rec.user)),
                              !.counter = 1]
           ELSE [rec EXCEPT !.pc = "ws_default"]]
  /\ UNCHANGED <<workspaces, memberships, contacts, usageLogs, nextId,
                 ghlConfigured, openaiKey>>
  /\ UNCHANGED clientVars

SlugTaken(slug) == \E w \in DOMAIN workspaces : workspaces[w].slug = slug

\* createWorkspace: one turn of the while (findUnique({slug})) loop
EnsureSlugProbe(r) ==
  /\ reqs[r].pc = "ws_slug"
  /\ LET rec == reqs[r]
         slug == Slugify(DefaultWorkspaceName(rec.user))
     IN  reqs' = [reqs EXCEPT ![r] =
           IF SlugTaken(rec.uniqueSlug)
             THEN [rec EXCEPT !.uniqueSlug = SlugWithCounter(slug, rec.counter),
                              !.counter = rec.counter + 1]
             ELSE [rec EXCEPT !.pc = "ws_create"]]
  /\ UNCHANGED <<workspaces, memberships, contacts, usageLogs, nextId,
                 ghlConfigured, openaiKey>>
  /\ UNCHANGED clientVars

\* createWorkspace: prisma.workspace.create with the nested OWNER membership;
\* the unique index on slug rejects a slug taken meanwhile
EnsureCreate(r) ==
  /\ reqs[r].pc = "ws_create"
  /\ LET rec == reqs[r]
     IN  IF SlugTaken(rec.uniqueSlug)
           THEN /\ reqs' = [reqs EXCEPT ![r] = Resume(rec, NoWs, TRUE)]
                /\ UNCHANGED <<workspaces, memberships, nextId>>
           ELSE /\ workspaces' = [w \in DOMAIN workspaces \cup {nextId} |->
                     IF w = nextId
                       THEN [slug |-> rec.uniqueSlug, contactCount |-> 0]
                       ELSE workspaces[w]]
                /\ memberships' = memberships \cup
                     {[userId |-> rec.user, workspaceId |-> nextId, role |-> "OWNER"]}
                /\ nextId' = nextId + 1
                /\ reqs' = [reqs EXCEPT ![r] =
                     Resume([rec EXCEPT !.writes = @ \cup {"workspace"}],
                            [id |-> nextId, role |-> "OWNER"], FALSE)]
  /\ UNCHANGED <<contacts, usageLogs, ghlConfigured, openaiKey>>
  /\ UNCHANGED clientVars

\* getDefaultWorkspace: the first OWNER membership, else the first ADMIN one,
\* else the first one, of a findMany that states no order
DefaultCandidates(u) ==
  LET all == getUserWorkspaces(u)
      owned == {m \in all : m.role = "OWNER"}
      admin == {m \in all : m.role = "ADMIN"}
  IN  IF owned # {} THEN owned ELSE IF admin # {} THEN admin ELSE all

EnsureDefault(r) ==
  /\ reqs[r].pc = "ws_default"
  /\ LET rec == reqs[r]
     IN  \E m \in DefaultCandidates(rec.user) :
           reqs' = [reqs EXCEPT ![r] =
             Resume(rec, [id |-> m.workspaceId, role |-> m.role], FALSE)]
  /\ UNCHANGED <<workspaces, memberships, contacts, usageLogs, nextId,
                 ghlConfigured, openaiKey>>
  /\ UNCHANGED clientVars

\* a query of ensureUserHasWorkspace fails at the store
EnsureFault(r) ==
  /\ reqs[r].pc \in {"ws_read", "ws_slug", "ws_create", "ws_default"}
  /\ reqs[r].user # EmptyId
  /\ reqs' = [reqs EXCEPT ![r] = Resume(reqs[r], NoWs, TRUE)]
  /\ UNCHANGED <<workspaces, memberships, contacts, usageLogs, nextId,
                 ghlConfigured, openaiKey>>
  /\ UNCHANGED clientVars

\* ------------------------------------------- POST /api/submit-contact
\* mutant: the body is not validated
SubmitEntryNoValidation(rec) ==
  IF rec.method # "POST" THEN Done(rec, ErrResp(405, "Method not allowed"))
  ELSE IF rec.user = NoSession THEN Done(rec, ErrResp(401, "Authentication required"))
  ELSE IF sanitizeContactData(BodyOf(rec.body)).threw
    THEN Done(rec, ErrResp(500, "Failed to process contact submission"))
  ELSE [rec EXCEPT !.pc = "ws_read"]

\* the handler up to its first store query: method, session, validation,
\* sanitization
SubmitEntry(rec) ==
  IF rec.method # "POST" THEN Done(rec, ErrResp(405, "Method not allowed"))
  ELSE IF rec.user = NoSession THEN Done(rec, ErrResp(401, "Authentication required"))
  ELSE IF ~validateContactData(BodyOf(rec.body)).isValid
    THEN Done(rec, ErrResp(400, "Invalid contact data"))
  ELSE IF sanitizeContactData(BodyOf(rec.body)).threw
    THEN Done(rec, ErrResp(500, "Failed to process contact submission"))
  ELSE [rec EXCEPT !.pc = "ws_read"]

SubmitStart(r) ==
  /\ reqs[r].pc = "idle"
  /\ \E method \in {"POST", "GET"}, user \in Sessions, body \in BodyNames :
       \* inputs the handler never reads on the path taken are held fixed
       /\ method # "POST" => user = NoSession
       /\ user = NoSession => body = "plain"
       /\ ~validateContactData(BodyOf(body)).isValid => user = "u1"
       /\ sanitizeContactData(BodyOf(body)).threw => user = "u1"
       \* every user posts the plain body, u1 the others too
       /\ body # "plain" => user = "u1"
       /\ reqs' = [reqs EXCEPT ![r] =
         SubmitEntry([Idle EXCEPT !.kind = "submit", !.method = method,
                                  !.user = user, !.body = body])]
  /\ UNCHANGED <<workspaces, memberships, contacts, usageLogs, nextId,
                 ghlConfigured, openaiKey>>
  /\ UNCHANGED clientVars

\* mutant: the status kept is the one of the first attempt
AfterDeliveryFirstStatus(rec, status) ==
  LET r1 == [rec EXCEPT !.webhookResponse = SurfacedStatus(rec.calls[1].outcome)]
  IN  IF rec.workspace # NoWs
        THEN [r1 EXCEPT !.pc = "create"]
        ELSE Done(r1, [NoResp EXCEPT !.code = 200, !.success = TRUE,
                                     !.contactId = 0,
                                     !.status = SurfacedStatus(rec.calls[1].outcome)])

\* the handler after a webhook attempt resolved with the given status
AfterDelivery(rec, status) ==
  LET r1 == [rec EXCEPT !.webhookResponse = status]
  IN  IF rec.workspace # NoWs
        THEN [r1 EXCEPT !.pc = "create"]
        ELSE Done(r1, [NoResp EXCEPT !.code = 200, !.success = TRUE,
                                     !.contactId = 0, !.status = status])

\* mutant: the JSON attempt is made whatever the form attempt returned
FormAttemptFanOut(rec, outcome) ==
  [rec EXCEPT !.calls = Append(@, [variant |-> "form", outcome |-> outcome]),
              !.webhookResponse = IF Resolved(outcome) THEN outcome ELSE 0,
              !.pc = "json"]

\* primary attempt: URL-encoded form
FormAttempt(rec, outcome) ==
  LET r1 == [rec EXCEPT !.calls = Append(@, [variant |-> "form", outcome |-> outcome])]
  IN  IF Resolved(outcome) THEN AfterDelivery(r1, outcome)
      ELSE [r1 EXCEPT !.pc = "json"]

SubmitForm(r) ==
  /\ reqs[r].pc = "form"
  /\ \E outcome \in Outcomes :
       reqs' = [reqs EXCEPT ![r] = FormAttempt(reqs[r], outcome)]
  /\ UNCHANGED <<workspaces, memberships, contacts, usageLogs, nextId,
                 ghlConfigured, openaiKey>>
  /\ UNCHANGED clientVars

\* the outer catch, for the error of a failed attempt
DeliveryError(rec, outcome) ==
  Done(rec, [NoResp EXCEPT !.code = 500,
                           !.error = "Failed to submit contact to GHL",
                           !.status = SurfacedStatus(outcome)])

\* mutant: the catch of the JSON attempt throws jsonError
JsonAttemptLastError(rec, outcome) ==
  LET r1 == [rec EXCEPT !.calls = Append(@, [variant |-> "json", outcome |-> outcome])]
  IN  IF Resolved(outcome) THEN AfterDelivery(r1, outcome)
      ELSE DeliveryError(r1, outcome)

\* mutant: a failure of both attempts is swallowed and the handler goes on
JsonAttemptSwallow(rec, outcome) ==
  LET r1 == [rec EXCEPT !.calls = Append(@, [variant |-> "json", outcome |-> outcome])]
  IN  AfterDelivery(r1, SurfacedStatus(outcome))

\* backup attempt: JSON; when it fails too, urlEncodedError is re-thrown
JsonAttempt(rec, outcome) ==
  LET r1 == [rec EXCEPT !.calls = Append(@, [variant |-> "json", outcome |-> outcome])]
  IN  IF Resolved(outcome) THEN AfterDelivery(r1, outcome)
      ELSE DeliveryError(r1, rec.calls[1].outcome)

SubmitJson(r) ==
  /\ reqs[r].pc = "json"
  /\ \E outcome \in Outcomes :
       reqs' = [reqs EXCEPT ![r] = JsonAttempt(reqs[r], outcome)]
  /\ UNCHANGED <<workspaces, memberships, contacts, usageLogs, nextId,
                 ghlConfigured, openaiKey>>
  /\ UNCHANGED clientVars

\* res.status(200).json({success: true, contactId, status})
SubmitOk(rec) ==
  Done(rec, [NoResp EXCEPT !.code = 200, !.success = TRUE,
                           !.contactId = rec.savedContact,
                           !.status = rec.webhookResponse])

\* mutant: the row is written with the default of the status column
ContactRowPending(rec) ==
  LET contactData == sanitizeContactData(BodyOf(rec.body))
  IN  [workspaceId |-> rec.workspace.id,
       name |-> contactData.name,
       phone |-> contactData.phone,
       email |-> contactData.email,
       company |-> contactData.company,
       notes |-> contactData.notes,
       transcription |-> contactData.notes,
       status |-> "PENDING"]

\* the row of prisma.contact.create; <<>> stands for null
ContactRow(rec) ==
  LET contactData == sanitizeContactData(BodyOf(rec.body))
  IN  [workspaceId |-> rec.workspace.id,
       name |-> contactData.name,
       phone |-> contactData.phone,
       email |-> contactData.email,
       company |-> contactData.company,
       notes |-> contactData.notes,
       transcription |-> contactData.notes,
       status |-> "PROCESSED"]

\* prisma.contact.create
SubmitCreate(r) ==
  /\ reqs[r].pc = "create"
  /\ contacts' = [c \in DOMAIN contacts \cup {nextId} |->
                    IF c = nextId THEN ContactRow(reqs[r]) ELSE contacts[c]]
  /\ nextId' = nextId + 1
  /\ reqs' = [reqs EXCEPT ![r] = [@ EXCEPT !.savedContact = nextId,
                                           !.writes = @ \cup {"contact"},
                                           !.pc = "count"]]
  /\ UNCHANGED <<workspaces, memberships, usageLogs, ghlConfigured, openaiKey>>
  /\ UNCHANGED clientVars

\* contactCount: { increment: n } / { decrement: n }, one atomic column update
AddToCount(w, n) ==
  [workspaces EXCEPT ![w] = [@ EXCEPT !.contactCount = @ + n]]

\* prisma.workspace.update({contactCount: {increment: 1}})
SubmitCount(r) ==
  /\ reqs[r].pc = "count"
  /\ workspaces' = AddToCount(reqs[r].workspace.id, 1)
  /\ reqs' = [reqs EXCEPT ![r] = [@ EXCEPT !.writes = @ \cup {"count"},
                                           !.pc = "log"]]
  /\ UNCHANGED <<memberships, contacts, usageLogs, nextId, ghlConfigured, openaiKey>>
  /\ UNCHANGED clientVars

\* the row of prisma.usageLog.create
SubmitLogRow(rec) ==
  [id |-> nextId, workspaceId |-> rec.workspace.id, userId |-> rec.user,
   action |-> "submit_contact", contactId |-> rec.savedContact,
   ghlStatus |-> rec.webhookResponse]

\* prisma.usageLog.create, then the success response
SubmitLog(r) ==
  /\ reqs[r].pc = "log"
  /\ usageLogs' = usageLogs \cup {SubmitLogRow(reqs[r])}
  /\ nextId' = nextId + 1
  /\ reqs' = [reqs EXCEPT ![r] = SubmitOk([@ EXCEPT !.writes = @ \cup {"log"}])]
  /\ UNCHANGED <<workspaces, memberships, contacts, ghlConfigured, openaiKey>>
  /\ UNCHANGED clientVars

\* mutant: the error of a local write reaches the outer catch
AfterDbErrorSurfaced(rec) ==
  Done(rec, ErrResp(500, "Failed to process contact submission"))

\* catch (dbError): logged, and the handler goes on to the success response
AfterDbError(rec) == SubmitOk(rec)

\* one of the three writes throws
SubmitDbFault(r) ==
  /\ reqs[r].pc \in {"create", "count", "log"}
  /\ reqs' = [reqs EXCEPT ![r] = AfterDbError(@)]
  /\ UNCHANGED <<workspaces, memberships, contacts, usageLogs, nextId,
                 ghlConfigured, openaiKey>>
  /\ UNCHANGED clientVars

\* ------------------------------------------- GET|DELETE /api/contacts
DefaultLimit == 20

sAcmeLower == <<"a", "c", "m", "e">>

\* the query strings a caller may send, by name
QueryNames == {"default", "search", "page2"}

QueryOf(q) ==
  CASE q = "default" -> [search |-> <<>>, page |-> 1, limit |-> DefaultLimit]
    [] q = "search" -> [search |-> sAcmeLower, page |-> 1, limit |-> DefaultLimit]
    [] q = "page2" -> [search |-> <<>>, page |-> 2, limit |-> 1]

\* { contains: search, mode: 'insensitive' }; a null column matches nothing
Contains(hay, needle) ==
  \E i \in 1..(Len(hay) - Len(needle) + 1) :
    SubSeq(ToLower(hay), i, i + Len(needle) - 1) = ToLower(needle)

\* the where clause of findMany: workspaceId and the OR of the four columns
Matches(row, w, search) ==
  /\ row.workspaceId = w
  /\ \/ search = <<>>
     \/ Contains(row.name, search)
     \/ Contains(row.email, search)
     \/ Contains(row.phone, search)
     \/ Contains(row.company, search)

\* orderBy createdAt desc: primary keys are handed out in creation order
RECURSIVE NewestFirst(_)
NewestFirst(ids) ==
  IF ids = {} THEN <<>>
  ELSE LET top == CHOOSE c \in ids : \A d \in ids : d <= c
       IN  <<top>> \o NewestFirst(ids \ {top})

\* skip: offset, take: limit
Page(s, offset, limit) ==
  SubSeq(s, offset + 1, IF Len(s) < offset + limit THEN Len(s) ELSE offset + limit)

\* the rows of the response, as [id, workspaceId]
FindMany(w, q) ==
  LET hit == {c \in DOMAIN contacts : Matches(contacts[c], w, QueryOf(q).search)}
      shown == Page(NewestFirst(hit), (QueryOf(q).page - 1) * QueryOf(q).limit,
                    QueryOf(q).limit)
  IN  [i \in 1..Len(shown) |->
         [id |-> shown[i], workspaceId |-> contacts[shown[i]].workspaceId]]

ContactsEntry(rec) ==
  IF rec.user = NoSession THEN Done(rec, ErrResp(401, "Authentication required"))
  ELSE [rec EXCEPT !.pc = "ws_read"]

ContactsStart(r) ==
  /\ reqs[r].pc = "idle"
  /\ \E method \in {"GET", "DELETE", "PUT"}, user \in Sessions,
        id \in DOMAIN contacts \cup {0, nextId}, q \in QueryNames :
       \* inputs the handler never reads on the path taken are held fixed
       /\ method # "GET" => q = "default"
       /\ method # "DELETE" => id = 0
       /\ user = NoSession => method = "GET" /\ q = "default"
       \* every user sends the default query, u1 the others too
       /\ q # "default" => user = "u1"
       /\ reqs' = [reqs EXCEPT ![r] =
            ContactsEntry([Idle EXCEPT !.kind = "contacts", !.method = method,
                                       !.user = user, !.id = id, !.query = q])]
  /\ UNCHANGED <<workspaces, memberships, contacts, usageLogs, nextId,
                 ghlConfigured, openaiKey>>
  /\ UNCHANGED clientVars

\* getUserWorkspaceRole: userWorkspace?.role || null ("NONE" for null)
getUserWorkspaceRole(u, w) ==
  IF \E m \in memberships : m.userId = u /\ m.workspaceId = w
    THEN (CHOOSE m \in memberships : m.userId = u /\ m.workspaceId = w).role
    ELSE "NONE"

\* the permission checks and the dispatch on the method, after the role query
Dispatch(rec, userRole) ==
  LET r1 == [rec EXCEPT !.userRole = userRole]
  IN  IF userRole = "NONE" \/ ~canUserPerformAction(userRole, "read")
        THEN Done(r1, ErrResp(403, "Insufficient permissions"))
      ELSE IF rec.method = "GET" THEN [r1 EXCEPT !.pc = "find"]
      ELSE IF rec.method = "DELETE"
        THEN IF ~canUserPerformAction(userRole, "delete")
               THEN Done(r1, ErrResp(403, "Insufficient permissions for deletion"))
             ELSE IF rec.id = 0
               THEN Done(r1, ErrResp(400, "Contact ID required"))
             ELSE [r1 EXCEPT !.pc = "findFirst"]
      ELSE Done(r1, ErrResp(405, "Method not allowed"))

ContactsRole(r) ==
  /\ reqs[r].pc = "role"
  /\ reqs' = [reqs EXCEPT ![r] =
       Dispatch(@, getUserWorkspaceRole(reqs[r].user, reqs[r].workspace.id))]
  /\ UNCHANGED <<workspaces, memberships, contacts, usageLogs, nextId,
                 ghlConfigured, openaiKey>>
  /\ UNCHANGED clientVars

\* GET: findMany and count, issued together; the 200 response
ContactsFind(r) ==
  /\ reqs[r].pc = "find"
  /\ reqs' = [reqs EXCEPT ![r] =
       Done(@, [NoResp EXCEPT !.code = 200,
                              !.data = FindMany(reqs[r].workspace.id, reqs[r].query)])]
  /\ UNCHANGED <<workspaces, memberships, contacts, usageLogs, nextId,
                 ghlConfigured, openaiKey>>
  /\ UNCHANGED clientVars

\* mutant: the lookup does not filter on the workspace
FoundAnywhere(id, w) == id \in DOMAIN contacts

\* prisma.contact.findFirst({where: {id, workspaceId}})
FoundInWorkspace(id, w) == id \in DOMAIN contacts /\ contacts[id].workspaceId = w

FindFirst(rec) ==
  IF FoundInWorkspace(rec.id, rec.workspace.id)
    THEN [rec EXCEPT !.pc = "delete"]
    ELSE Done(rec, ErrResp(404, "Contact not found"))

ContactsFindFirst(r) ==
  /\ reqs[r].pc = "findFirst"
  /\ reqs' = [reqs EXCEPT ![r] = FindFirst(@)]
  /\ UNCHANGED <<workspaces, memberships, contacts, usageLogs, nextId,
                 ghlConfigured, openaiKey>>
  /\ UNCHANGED clientVars

\* mutant: deleting a row that is gone is not an error (deleteMany)
DeleteNeverThrows(id) == FALSE

\* prisma.contact.delete({where: {id}}) throws when no row has the id
DeleteThrows(id) == id \notin DOMAIN contacts

ContactsDelete(r) ==
  /\ reqs[r].pc = "delete"
  /\ IF DeleteThrows(reqs[r].id)
       THEN /\ reqs' = [reqs EXCEPT ![r] = Done(@, ErrResp(500, "Failed to delete contact"))]
            /\ UNCHANGED contacts
       ELSE /\ contacts' = [c \in DOMAIN contacts \ {reqs[r].id} |-> contacts[c]]
            /\ reqs' = [reqs EXCEPT ![r] = [@ EXCEPT !.writes = @ \cup {"contact"},
                                                     !.pc = "decrement"]]
  /\ UNCHANGED <<workspaces, memberships, usageLogs, nextId, ghlConfigured, openaiKey>>
  /\ UNCHANGED clientVars

\* prisma.workspace.update({contactCount: {decrement: 1}}), then 200
ContactsDecrement(r) ==
  /\ reqs[r].pc = "decrement"
  /\ workspaces' = AddToCount(reqs[r].workspace.id, -1)
  /\ reqs' = [reqs EXCEPT ![r] =
       Done([@ EXCEPT !.writes = @ \cup {"count"}],
            [NoResp EXCEPT !.code = 200, !.success = TRUE])]
  /\ UNCHANGED <<memberships, contacts, usageLogs, nextId, ghlConfigured, openaiKey>>
  /\ UNCHANGED clientVars

\* a query of the handler fails at the store: the catch of the method's try
\* block, or (for the role query, outside any try) the framework's 500
ContactsFault(r) ==
  /\ reqs[r].pc \in {"role", "find", "findFirst", "delete", "decrement"}
  /\ reqs' = [reqs EXCEPT ![r] =
       Done(@, ErrResp(500,
         CASE reqs[r].pc = "role" -> "Internal Server Error"
           [] reqs[r].pc = "find" -> "Failed to fetch contacts"
           [] OTHER -> "Failed to delete contact"))]
  /\ UNCHANGED <<workspaces, memberships, contacts, usageLogs, nextId,
                 ghlConfigured, openaiKey>>
  /\ UNCHANGED clientVars

\* --------------------------------------------------- the server's runs
Slots == 1..MaxReq

\* requests are issued one after the other (slot r after slot r - 1) and run
\* concurrently from then on
NextSlot(r) == \A q \in Slots : q < r => reqs[q].pc # "idle"

sMyWorkspace == <<"m", "y", "-", "w", "o", "r", "k", "s", "p", "a", "c", "e">>
sStoredPhone == <<"1", "5", "5", "5", "1", "2", "3", "4", "5", "6", "7">>

\* a store the program has produced: u1 once got the default workspace 1 and
\* submitted contact 2 into it; u2 is a further member of it; u3 is new
InitStore ==
  /\ workspaces = (1 :> [slug |-> sMyWorkspace, contactCount |-> 1])
  /\ \E role \in Roles \ {"OWNER"} :
       memberships = {[userId |-> "u1", workspaceId |-> 1, role |-> "OWNER"],
                      [userId |-> "u2", workspaceId |-> 1, role |-> role]}
  /\ contacts = (2 :> [workspaceId |-> 1, name |-> sAnnLee, phone |-> sStoredPhone,
                       email |-> <<>>, company |-> <<>>, notes |-> <<>>,
                       transcription |-> <<>>, status |-> "PROCESSED"])
  /\ usageLogs = {}
  /\ nextId = 3

\* no page is mounted in the runs of the server
NoClient ==
  /\ page = "none"
  /\ ui = <<>>
  /\ posts = <<>>
  /\ clicks = 0

Init ==
  /\ InitStore
  /\ ghlConfigured \in BOOLEAN
  /\ openaiKey = sSecretKey
  /\ reqs = [r \in Slots |-> Idle]
  /\ NoClient

\* the steps in which no store query fails
NextNoFault ==
  \E r \in Slots :
    \/ NextSlot(r) /\ SubmitStart(r)
    \/ NextSlot(r) /\ ContactsStart(r)
    \/ EnsureRead(r)
    \/ EnsureSlugProbe(r)
    \/ EnsureCreate(r)
    \/ EnsureDefault(r)
    \/ SubmitForm(r)
    \/ SubmitJson(r)
    \/ SubmitCreate(r)
    \/ SubmitCount(r)
    \/ SubmitLog(r)
    \/ ContactsRole(r)
    \/ ContactsFind(r)
    \/ ContactsFindFirst(r)
    \/ ContactsDelete(r)
    \/ ContactsDecrement(r)

\* the steps in which a store query fails
NextFault ==
  \E r \in Slots :
    \/ EnsureFault(r)
    \/ SubmitDbFault(r)
    \/ ContactsFault(r)

Next == NextNoFault \/ NextFault

\* the server, any store query may fail
Spec == Init /\ [][Next]_vars

\* the server, no store query fails
SpecNoFault == Init /\ [][NextNoFault]_vars

\* ================================================== RegExp (pages/api/transcribe.ts)
\* The regular expressions of sanitizeInput and parseContactInfo, as syntax
\* trees, and the backtracking matcher of RegExp.prototype.exec: the
\* alternatives of a node are tried in the engine's order (greedy quantifiers
\* longest first, lazy ones shortest first, alternations left to right) and the
\* match reported is the first one found from the leftmost starting position.
UpperSet == {UpperCase[i] : i \in 1..26}
WordChars == LowerSet \cup UpperSet \cup Digits \cup {"_"}

\* String.prototype.toUpperCase, one character
UpperChar(c) ==
  IF \E i \in 1..26 : LowerCase[i] = c
    THEN UpperCase[CHOOSE i \in 1..26 : LowerCase[i] = c]
    ELSE c

\* syntax trees
OneOf(cs) == [k |-> "set", cs |-> cs, neg |-> FALSE]
NoneOf(cs) == [k |-> "set", cs |-> cs, neg |-> TRUE]
Lit(chars) == [k |-> "lit", cs |-> chars]
Cat(rs) == [k |-> "cat", rs |-> rs]
Alt(rs) == [k |-> "alt", rs |-> rs]
Many(r, min, max) == [k |-> "rep", r |-> r, min |-> min, max |-> max, greedy |-> TRUE]
Few(r, min, max) == [k |-> "rep", r |-> r, min |-> min, max |-> max, greedy |-> FALSE]
Grp(n, r) == [k |-> "grp", n |-> n, r |-> r]
Bol == [k |-> "bol"]
Eol == [k |-> "eol"]
WordB == [k |-> "wb"]

\* the capture groups of one match: group number -> <<first, one past last>>
GroupIds == 1..4
NoCaps == [n \in GroupIds |-> <<0, 0>>]

\* one character against another, under the i flag or not
SameChar(c, d, ci) == c = d \/ (ci /\ LowerChar(c) = LowerChar(d))

\* one character against a character class
InClass(c, node, ci) ==
  LET hit == \/ c \in node.cs
             \/ ci /\ (LowerChar(c) \in node.cs \/ UpperChar(c) \in node.cs)
  IN  hit # node.neg

\* \b: exactly one of the characters around position i is a word character
AtWordBoundary(s, i) ==
  LET before == i > 1 /\ s[i - 1] \in WordChars
      after == i <= Len(s) /\ s[i] \in WordChars
  IN  before # after

LitAt(s, i, chars, ci) ==
  /\ i + Len(chars) - 1 <= Len(s)
  /\ \A j \in 1..Len(chars) : SameChar(s[i + j - 1], chars[j], ci)

\* Match(node, s, st, ci): the ways node matches s from the state st (a
\* position and the groups captured so far), in the order the engine tries
\* them.  Lists are processed by halving, so that the depth of the evaluation
\* grows with the logarithm of the length of the text.
RECURSIVE Match(_, _, _, _)
RECURSIVE MatchEach(_, _, _, _, _, _)
RECURSIVE MatchCat(_, _, _, _, _)
RECURSIVE MatchAlt(_, _, _, _, _)
RECURSIVE MatchRep(_, _, _, _, _)
RECURSIVE MatchRepEach(_, _, _, _, _, _, _)
RECURSIVE FirstOutside(_, _, _, _, _)

\* node from each of the states from[lo..hi], in order
MatchEach(node, s, from, lo, hi, ci) ==
  IF lo > hi THEN <<>>
  ELSE IF lo = hi THEN Match(node, s, from[lo], ci)
  ELSE LET mid == (lo + hi) \div 2
       IN  MatchEach(node, s, from, lo, mid, ci)
             \o MatchEach(node, s, from, mid + 1, hi, ci)

MatchCat(rs, j, s, from, ci) ==
  IF j > Len(rs) \/ from = <<>> THEN from
  ELSE MatchCat(rs, j + 1, s, MatchEach(rs[j], s, from, 1, Len(from), ci), ci)

MatchAlt(rs, j, s, st, ci) ==
  IF j > Len(rs) THEN <<>>
  ELSE Match(rs[j], s, st, ci) \o MatchAlt(rs, j + 1, s, st, ci)

\* the first position of lo..hi whose character is outside the class, or 0
FirstOutside(class, s, lo, hi, ci) ==
  IF lo > hi THEN 0
  ELSE IF lo = hi THEN (IF InClass(s[lo], class, ci) THEN 0 ELSE lo)
  ELSE LET mid == (lo + hi) \div 2
           left == FirstOutside(class, s, lo, mid, ci)
       IN  IF left # 0 THEN left ELSE FirstOutside(class, s, mid + 1, hi, ci)

\* a quantified character class: every length from min up to the run of
\* characters of the class that starts here (or max), longest or shortest first
MatchRun(node, s, st, ci) ==
  LET room == Len(s) - st.pos + 1
      cap == IF node.max = -1 \/ node.max > room THEN room ELSE node.max
      out == FirstOutside(node.r, s, st.pos, st.pos + cap - 1, ci)
      run == IF out = 0 THEN cap ELSE out - st.pos
      count == IF run >= node.min THEN run - node.min + 1 ELSE 0
  IN  [j \in 1..count |->
        [st EXCEPT !.pos = IF node.greedy THEN st.pos + run - (j - 1)
                           ELSE st.pos + node.min + (j - 1)]]

MatchRepEach(node, count, s, from, lo, hi, ci) ==
  IF lo > hi THEN <<>>
  ELSE IF lo = hi THEN MatchRep(node, count, s, from[lo], ci)
  ELSE LET mid == (lo + hi) \div 2
       IN  MatchRepEach(node, count, s, from, lo, mid, ci)
             \o MatchRepEach(node, count, s, from, mid + 1, hi, ci)

\* a quantified group: after count iterations, one more (an iteration that
\* consumes nothing ends the loop) or stop
MatchRep(node, count, s, st, ci) ==
  LET once == IF node.max = -1 \/ count < node.max
                THEN SelectSeq(Match(node.r, s, st, ci),
                               LAMBDA x : x.pos > st.pos)
                ELSE <<>>
      more == MatchRepEach(node, count + 1, s, once, 1, Len(once), ci)
      stop == IF count >= node.min THEN <<st>> ELSE <<>>
  IN  IF node.greedy THEN more \o stop ELSE stop \o more

Match(node, s, st, ci) ==
  CASE node.k = "set" ->
         IF st.pos <= Len(s) /\ InClass(s[st.pos], node, ci)
           THEN <<[st EXCEPT !.pos = @ + 1]>>
           ELSE <<>>
    [] node.k = "lit" ->
         IF LitAt(s, st.pos, node.cs, ci)
           THEN <<[st EXCEPT !.pos = @ + Len(node.cs)]>>
           ELSE <<>>
    [] node.k = "cat" -> MatchCat(node.rs, 1, s, <<st>>, ci)
    [] node.k = "alt" -> MatchAlt(node.rs, 1, s, st, ci)
    [] node.k = "rep" ->
         IF node.r.k = "set" THEN MatchRun(node, s, st, ci)
         ELSE MatchRep(node, 0, s, st, ci)
    [] node.k = "grp" ->
         LET inner == Match(node.r, s, st, ci)
         IN  [j \in 1..Len(inner) |->
               [inner[j] EXCEPT !.caps[node.n] = <<st.pos, inner[j].pos>>]]
    [] node.k = "bol" -> IF st.pos = 1 THEN <<st>> ELSE <<>>
    [] node.k = "eol" -> IF st.pos = Len(s) + 1 THEN <<st>> ELSE <<>>
    [] node.k = "wb" -> IF AtWordBoundary(s, st.pos) THEN <<st>> ELSE <<>>

NoMatch == [found |-> FALSE, first |-> 0, last |-> 0, caps |-> NoCaps]

\* the first position of lo..hi from which node matches, or 0
RECURSIVE FirstStart(_, _, _, _, _)
FirstStart(node, s, lo, hi, ci) ==
  IF lo > hi THEN 0
  ELSE IF lo = hi
    THEN (IF Match(node, s, [pos |-> lo, caps |-> NoCaps], ci) # <<>> THEN lo ELSE 0)
  ELSE LET mid == (lo + hi) \div 2
           left == FirstStart(node, s, lo, mid, ci)
       IN  IF left # 0 THEN left ELSE FirstStart(node, s, mid + 1, hi, ci)

\* RegExp.prototype.exec with lastIndex = i - 1
Taken(first, way) ==
  [found |-> TRUE, first |-> first, last |-> way.pos - 1, caps |-> way.caps]

\* the match at the position FirstStart found: the way the engine tries first
StartAt(node, s, first, ci) ==
  IF first = 0 THEN NoMatch
  ELSE Taken(first, Match(node, s, [pos |-> first, caps |-> NoCaps], ci)[1])

ExecFrom(node, s, i, ci) ==
  StartAt(node, s, FirstStart(node, s, i, Len(s) + 1, ci), ci)

\* String.prototype.match without the g flag
Exec(node, s, ci) == ExecFrom(node, s, 1, ci)

\* match[0] and match[n] ('' stands for an undefined group, as every use does)
Whole(s, m) == SubSeq(s, m.first, m.last)
Group(s, m, n) == SubSeq(s, m.caps[n][1], m.caps[n][2] - 1)

\* String.prototype.match with the g flag: every match, left to right
RECURSIVE MatchAll(_, _, _, _)
RECURSIVE MatchAllAfter(_, _, _, _)

\* m and every match after it (an empty match moves lastIndex on by one)
MatchAllAfter(node, s, m, ci) ==
  IF ~m.found THEN <<>>
  ELSE <<Whole(s, m)>>
         \o MatchAll(node, s, IF m.last >= m.first THEN m.last + 1
                              ELSE m.first + 1, ci)

MatchAll(node, s, i, ci) == MatchAllAfter(node, s, ExecFrom(node, s, i, ci), ci)

\* String.prototype.replace(/[...]/g, ''): drop the characters of the class
\* from s[lo..hi]
RECURSIVE StripRange(_, _, _, _)
StripRange(s, class, lo, hi) ==
  IF lo > hi THEN <<>>
  ELSE IF lo = hi THEN (IF InClass(s[lo], class, FALSE) THEN <<>> ELSE <<s[lo]>>)
  ELSE LET mid == (lo + hi) \div 2
       IN  StripRange(s, class, lo, mid) \o StripRange(s, class, mid + 1, hi)

Strip(s, class) == StripRange(s, class, 1, Len(s))

\* ================================================== sanitizeInput, parseContactInfo
\* slice(0, 1000) of sanitizeInput
InputLimit == 1000

\* /[<>'"&]/g and /[^\w\s@.-]/g of sanitizeInput
HtmlChars == OneOf({"<", ">", "'", "\"", "&"})
NotPlain == NoneOf(WordChars \cup WhiteSpace \cup {"@", ".", "-"})

\* sanitizeInput(input) and sanitizeInput(input, true)
sanitizeInputTrimOnly(input) == Trim(input)
sanitizeInput(input) == Trim(Slice(Strip(Strip(input, HtmlChars), NotPlain), InputLimit))
sanitizeInputPreserveEmail(input) == Trim(Slice(Strip(input, HtmlChars), InputLimit))

\* line 58, flags 'g'
phoneRegex ==
  Cat(<<Many(Grp(1, Cat(<<Many(Lit(<<"+">>), 0, 1), Many(Lit(<<"1">>), 0,
  1), Many(OneOf(WhiteSpace \cup {"-", "."}), 0, 1)>>)), 0, 1),
  Many(Lit(<<"(">>), 0, 1), Grp(2, Many(OneOf(Digits), 3, 3)),
  Many(Lit(<<")">>), 0, 1), Many(OneOf(WhiteSpace \cup {"-", "."}), 0, 1),
  Grp(3, Many(OneOf(Digits), 3, 3)), Many(OneOf(WhiteSpace \cup {"-", "."}),
  0, 1), Grp(4, Many(OneOf(Digits), 4, 4))>>)

\* line 96, flags ''
emailRegex ==
  Grp(1, Cat(<<Many(OneOf(LowerSet \cup UpperSet \cup Digits \cup {".", "_",
  "%", "+", "-"}), 1, -1), Lit(<<"@">>), Many(OneOf(LowerSet \cup UpperSet
  \cup Digits \cup {".", "-"}), 1, -1), Lit(<<".">>), Many(OneOf(LowerSet
  \cup UpperSet), 2, -1)>>))

\* line 105, flags 'i'
voiceEmailDotRegex ==
  Cat(<<Grp(1, Many(OneOf(LowerSet \cup UpperSet \cup Digits \cup {".", "_",
  "%", "+", "-"}), 1, -1)), Many(OneOf(WhiteSpace), 1, -1), Lit(<<"a",
  "t">>), Many(OneOf(WhiteSpace), 1, -1), Grp(2, Many(OneOf(LowerSet \cup
  UpperSet \cup Digits \cup {".", "-"}), 1, -1)), Many(OneOf(WhiteSpace), 1,
  -1), Lit(<<"d", "o", "t">>), Many(OneOf(WhiteSpace), 1, -1), Grp(3,
  Alt(<<Lit(<<"c", "o", "m">>), Lit(<<"n", "e", "t">>), Lit(<<"o", "r",
  "g">>), Lit(<<"e", "d", "u">>), Lit(<<"g", "o", "v">>), Lit(<<"c", "o",
  ".", "u", "k">>), Lit(<<"i", "o">>), Lit(<<"m", "i", "l">>), Lit(<<"b",
  "i", "z">>), Lit(<<"i", "n", "f", "o">>)>>))>>)

\* line 115, flags 'i'
voiceEmailRegex ==
  Cat(<<Grp(1, Many(OneOf(LowerSet \cup UpperSet \cup Digits \cup {".", "_",
  "%", "+", "-"}), 1, -1)), Many(OneOf(WhiteSpace), 1, -1), Lit(<<"a",
  "t">>), Many(OneOf(WhiteSpace), 1, -1), Grp(2, Cat(<<Many(OneOf(LowerSet
  \cup UpperSet \cup Digits \cup {".", "-"}), 1, -1), Lit(<<".">>),
  Many(OneOf(LowerSet \cup UpperSet), 2, -1)>>))>>)

\* line 125, flags 'i'
spacedEmailRegex ==
  Cat(<<Grp(1, Cat(<<OneOf(LowerSet \cup UpperSet), Many(OneOf(WhiteSpace),
  1, -1), OneOf(LowerSet \cup UpperSet), Many(Cat(<<Many(OneOf(WhiteSpace),
  1, -1), OneOf(LowerSet \cup UpperSet)>>), 0, -1)>>)),
  Many(OneOf(WhiteSpace), 1, -1), Lit(<<"a", "t">>), Many(OneOf(WhiteSpace),
  1, -1), Grp(2, Cat(<<OneOf(LowerSet \cup UpperSet),
  Many(Cat(<<Many(OneOf(WhiteSpace), 1, -1), OneOf(LowerSet \cup
  UpperSet)>>), 0, -1)>>)), Many(OneOf(WhiteSpace), 1, -1), Lit(<<"d", "o",
  "t">>), Many(OneOf(WhiteSpace), 1, -1), Grp(3, Cat(<<OneOf(LowerSet \cup
  UpperSet), Many(Cat(<<Many(OneOf(WhiteSpace), 1, -1), OneOf(LowerSet \cup
  UpperSet)>>), 0, -1)>>))>>)

\* line 138, flags 'i'
spelledEmailRegex ==
  Cat(<<Lit(<<"e", "m", "a", "i", "l">>), Many(OneOf(WhiteSpace), 1, -1),
  Lit(<<"i", "s">>), Many(OneOf(WhiteSpace), 1, -1), Grp(1,
  Cat(<<OneOf(LowerSet \cup UpperSet), Many(Cat(<<OneOf(WhiteSpace \cup
  {"-"}), OneOf(LowerSet \cup UpperSet)>>), 0, -1)>>)),
  Many(OneOf(WhiteSpace), 1, -1), Lit(<<"a", "t">>), Many(OneOf(WhiteSpace),
  1, -1), Grp(2, Cat(<<OneOf(LowerSet \cup UpperSet),
  Many(Cat(<<OneOf(WhiteSpace \cup {"-"}), OneOf(LowerSet \cup UpperSet)>>),
  0, -1)>>)), Many(OneOf(WhiteSpace), 1, -1), Lit(<<"d", "o", "t">>),
  Many(OneOf(WhiteSpace), 1, -1), Grp(3, Cat(<<OneOf(LowerSet \cup
  UpperSet), Many(Cat(<<OneOf(WhiteSpace \cup {"-"}), OneOf(LowerSet \cup
  UpperSet)>>), 0, -1)>>))>>)

\* line 153, flags 'i'
firstLastRegex ==
  Cat(<<Lit(<<"f", "i", "r", "s", "t">>), Alt(<<Lit(<<" ", "n", "a", "m",
  "e">>), Cat(<<>>)>>), Many(OneOf(WhiteSpace), 1, -1),
  Many(Cat(<<Lit(<<"i", "s">>), Many(OneOf(WhiteSpace), 1, -1)>>), 0, 1),
  Grp(1, Cat(<<OneOf(UpperSet), Many(OneOf(LowerSet), 1, -1)>>)),
  Many(Cat(<<Few(NoneOf({"\n"}), 0, -1), Lit(<<"l", "a", "s", "t">>),
  Alt(<<Lit(<<" ", "n", "a", "m", "e">>), Cat(<<>>)>>),
  Many(OneOf(WhiteSpace), 1, -1), Many(Cat(<<Lit(<<"i", "s">>),
  Many(OneOf(WhiteSpace), 1, -1)>>), 0, 1), Grp(2, Cat(<<OneOf(UpperSet),
  Many(OneOf(LowerSet), 1, -1)>>))>>), 0, 1)>>)

\* line 164, flags 'i'
fullNameRegex ==
  Cat(<<Alt(<<Lit(<<"m", "y", " ", "n", "a", "m", "e", " ", "i", "s">>),
  Lit(<<"n", "a", "m", "e", " ", "i", "s">>), Lit(<<"t", "h", "i", "s", " ",
  "i", "s">>), Lit(<<"i", " ", "a", "m">>), Lit(<<"i", "'", "m">>)>>),
  Many(OneOf(WhiteSpace), 1, -1), Grp(1, Cat(<<OneOf(UpperSet),
  Many(OneOf(LowerSet), 1, -1), Many(OneOf(WhiteSpace), 1, -1),
  OneOf(UpperSet), Many(OneOf(LowerSet), 1, -1),
  Many(Cat(<<Many(OneOf(WhiteSpace), 1, -1), OneOf(UpperSet),
  Many(OneOf(LowerSet), 1, -1)>>), 0, 1)>>))>>)

\* line 174, flags 'i'
singleNameRegex ==
  Cat(<<Alt(<<Lit(<<"m", "y", " ", "n", "a", "m", "e", " ", "i", "s">>),
  Lit(<<"n", "a", "m", "e", " ", "i", "s">>), Lit(<<"t", "h", "i", "s", " ",
  "i", "s">>), Lit(<<"i", " ", "a", "m">>), Lit(<<"i", "'", "m">>)>>),
  Many(OneOf(WhiteSpace), 1, -1), Grp(1, Cat(<<OneOf(UpperSet),
  Many(OneOf(LowerSet), 1, -1)>>))>>)

\* line 184, flags 'i'
withNameRegex ==
  Cat(<<Alt(<<Lit(<<"w", "i", "t", "h">>), Lit(<<"f", "o", "r">>),
  Lit(<<"m", "e", "e", "t", "i", "n", "g">>), Lit(<<"s", "p", "e", "a", "k",
  "i", "n", "g", " ", "w", "i", "t", "h">>), Lit(<<"t", "a", "l", "k", "i",
  "n", "g", " ", "t", "o">>), Lit(<<"o", "n", " ", "b", "e", "h", "a", "l",
  "f", " ", "o", "f">>)>>), Many(OneOf(WhiteSpace), 1, -1), Grp(1,
  Cat(<<OneOf(UpperSet), Many(OneOf(LowerSet), 1, -1),
  Many(Cat(<<Many(OneOf(WhiteSpace), 1, -1), OneOf(UpperSet),
  Many(OneOf(LowerSet), 1, -1)>>), 0, 1)>>))>>)

\* line 194, flags 'i'
callingRegex ==
  Cat(<<Lit(<<"h">>), Alt(<<Lit(<<"e", "l", "l", "o">>), Lit(<<"i">>)>>),
  Many(Lit(<<",">>), 0, 1), Many(OneOf(WhiteSpace), 1, -1), Grp(1,
  Cat(<<OneOf(UpperSet), Many(OneOf(LowerSet), 1, -1),
  Many(Cat(<<Many(OneOf(WhiteSpace), 1, -1), OneOf(UpperSet),
  Many(OneOf(LowerSet), 1, -1)>>), 0, 1)>>)), Many(OneOf(WhiteSpace), 1,
  -1), Alt(<<Lit(<<"h", "e", "r", "e">>), Lit(<<"c", "a", "l", "l", "i",
  "n", "g">>), Lit(<<"s", "p", "e", "a", "k", "i", "n", "g">>)>>)>>)

\* line 204, flags 'i'
contactNameRegex ==
  Cat(<<Alt(<<Lit(<<"c", "o", "n", "t", "a", "c", "t", " ", "n", "a", "m",
  "e">>), Lit(<<"n", "a", "m", "e", " ", "f", "o", "r", " ", "c", "o", "n",
  "t", "a", "c", "t">>), Lit(<<"c", "o", "n", "t", "a", "c", "t">>)>>),
  Many(OneOf(WhiteSpace), 1, -1), Many(Cat(<<Lit(<<"i", "s">>),
  Many(OneOf(WhiteSpace), 1, -1)>>), 0, 1), Grp(1, Cat(<<OneOf(UpperSet),
  Many(OneOf(LowerSet), 1, -1), Many(Cat(<<Many(OneOf(WhiteSpace), 1, -1),
  OneOf(UpperSet), Many(OneOf(LowerSet), 1, -1)>>), 0, 1)>>))>>)

\* line 214, flags ''
firstWordsRegex ==
  Cat(<<Bol, Grp(1, Cat(<<OneOf(UpperSet), Many(OneOf(LowerSet), 1, -1),
  Many(Cat(<<Many(OneOf(WhiteSpace), 1, -1), OneOf(UpperSet),
  Many(OneOf(LowerSet), 1, -1)>>), 0, 1)>>))>>)

\* line 230, flags 'i'
companyNameRegex ==
  Cat(<<Alt(<<Lit(<<"c", "o", "m", "p", "a", "n", "y", " ", "n", "a", "m",
  "e">>), Lit(<<"c", "o", "m", "p", "a", "n", "y">>), Lit(<<"o", "r", "g",
  "a", "n", "i", "z", "a", "t", "i", "o", "n">>), Lit(<<"b", "u", "s", "i",
  "n", "e", "s", "s">>), Lit(<<"e", "m", "p", "l", "o", "y", "e", "r">>)>>),
  Many(OneOf(WhiteSpace), 1, -1), Many(Cat(<<Lit(<<"i", "s">>),
  Many(OneOf(WhiteSpace), 1, -1)>>), 0, 1), Grp(1, Cat(<<OneOf(UpperSet),
  Few(OneOf(LowerSet \cup UpperSet \cup WhiteSpace \cup {"&", ".", ",",
  "-"}), 1, -1)>>)), Many(OneOf(WhiteSpace \cup {","}), 0, -1),
  Alt(<<Lit(<<"p", "l", "e", "a", "s", "e">>), Lit(<<"p", "h", "o", "n",
  "e">>), Lit(<<"e", "m", "a", "i", "l">>), Lit(<<"c", "o", "n", "t", "a",
  "c", "t">>), Eol>>)>>)

\* line 239, flags 'i'
workAtRegex ==
  Cat(<<Alt(<<Lit(<<"i", " ", "w", "o", "r", "k">>), Lit(<<"w", "o", "r",
  "k">>), Lit(<<"e", "m", "p", "l", "o", "y", "e", "d">>)>>),
  Many(OneOf(WhiteSpace), 1, -1), Alt(<<Lit(<<"a", "t">>), Lit(<<"f", "o",
  "r">>), Lit(<<"w", "i", "t", "h">>)>>), Many(OneOf(WhiteSpace), 1, -1),
  Grp(1, Cat(<<OneOf(UpperSet), Few(OneOf(LowerSet \cup UpperSet \cup
  WhiteSpace \cup {"&", ".", ",", "-"}), 1, -1)>>)), Many(OneOf(WhiteSpace
  \cup {","}), 0, -1), Alt(<<Lit(<<"a", "n", "d">>), Lit(<<"p", "l", "e",
  "a", "s", "e">>), Lit(<<"p", "h", "o", "n", "e">>), Lit(<<"e", "m", "a",
  "i", "l">>), Lit(<<"c", "o", "n", "t", "a", "c", "t">>), Eol>>)>>)

\* line 249, flags 'i'
fromCompanyRegex ==
  Cat(<<Alt(<<Lit(<<"f", "r", "o", "m">>), Lit(<<"r", "e", "p", "r", "e",
  "s", "e", "n", "t", "i", "n", "g">>), Lit(<<"o", "n", " ", "b", "e", "h",
  "a", "l", "f", " ", "o", "f">>)>>), Many(OneOf(WhiteSpace), 1, -1), Grp(1,
  Cat(<<OneOf(UpperSet), Few(OneOf(LowerSet \cup UpperSet \cup WhiteSpace
  \cup {"&", ".", ",", "-"}), 1, -1)>>)), Many(OneOf(WhiteSpace \cup {","}),
  0, -1), Alt(<<Lit(<<"a", "n", "d">>), Lit(<<"p", "l", "e", "a", "s",
  "e">>), Lit(<<"p", "h", "o", "n", "e">>), Lit(<<"e", "m", "a", "i",
  "l">>), Lit(<<"c", "o", "n", "t", "a", "c", "t">>), Eol>>)>>)

\* line 259, flags ''
suffixCompanyRegex ==
  Cat(<<Alt(<<Bol, OneOf(WhiteSpace)>>), Grp(1, Cat(<<OneOf(UpperSet),
  Many(OneOf(LowerSet \cup UpperSet \cup WhiteSpace \cup {"&", ".", "-"}),
  1, -1), Many(OneOf(WhiteSpace), 1, -1), Alt(<<Lit(<<"I", "n", "c">>),
  Lit(<<"L", "L", "C">>), Lit(<<"C", "o", "r", "p">>), Lit(<<"C", "o", "r",
  "p", "o", "r", "a", "t", "i", "o", "n">>), Lit(<<"C", "o", "m", "p", "a",
  "n", "y">>), Lit(<<"C", "o", ".">>), Lit(<<"L", "t", "d">>), Lit(<<"L",
  "i", "m", "i", "t", "e", "d">>), Lit(<<"S", "o", "l", "u", "t", "i", "o",
  "n", "s">>), Lit(<<"S", "e", "r", "v", "i", "c", "e", "s">>), Lit(<<"G",
  "r", "o", "u", "p">>), Lit(<<"A", "s", "s", "o", "c", "i", "a", "t", "e",
  "s">>), Lit(<<"P", "a", "r", "t", "n", "e", "r", "s">>), Lit(<<"C", "o",
  "n", "s", "u", "l", "t", "i", "n", "g">>)>>)>>)), Alt(<<OneOf(WhiteSpace),
  Eol, Lit(<<",">>), Lit(<<".">>), Lit(<<"!">>), Lit(<<"?">>)>>)>>)

\* line 269, flags ''
techCompanyRegex ==
  Cat(<<Alt(<<Bol, OneOf(WhiteSpace)>>), Grp(1, Cat(<<OneOf(UpperSet),
  Many(OneOf(LowerSet \cup UpperSet), 1, -1),
  Many(Cat(<<Many(OneOf(WhiteSpace), 1, -1), OneOf(UpperSet),
  Many(OneOf(LowerSet \cup UpperSet), 1, -1)>>), 0, -1)>>)),
  Many(OneOf(WhiteSpace), 1, -1), Alt(<<Lit(<<"T", "e", "c", "h", "n", "o",
  "l", "o", "g", "i", "e", "s">>), Lit(<<"T", "e", "c", "h">>), Lit(<<"S",
  "y", "s", "t", "e", "m", "s">>), Lit(<<"S", "o", "f", "t", "w", "a", "r",
  "e">>), Lit(<<"D", "i", "g", "i", "t", "a", "l">>), Lit(<<"M", "e", "d",
  "i", "a">>), Lit(<<"L", "a", "b", "s">>), Lit(<<"E", "n", "t", "e", "r",
  "p", "r", "i", "s", "e", "s">>)>>), Alt(<<OneOf(WhiteSpace), Eol,
  Lit(<<",">>), Lit(<<".">>), Lit(<<"!">>), Lit(<<"?">>)>>)>>)

\* line 279, flags ''
industriesRegex ==
  Cat(<<Alt(<<Bol, OneOf(WhiteSpace)>>), Grp(1, Cat(<<OneOf(UpperSet),
  Many(OneOf(LowerSet \cup UpperSet), 1, -1),
  Many(Cat(<<Many(OneOf(WhiteSpace), 1, -1), OneOf(UpperSet),
  Many(OneOf(LowerSet \cup UpperSet), 1, -1)>>), 0, -1)>>)),
  Many(OneOf(WhiteSpace), 1, -1), Alt(<<Lit(<<"I", "n", "d", "u", "s", "t",
  "r", "i", "e", "s">>), Lit(<<"I", "n", "t", "e", "r", "n", "a", "t", "i",
  "o", "n", "a", "l">>), Lit(<<"G", "l", "o", "b", "a", "l">>), Lit(<<"W",
  "o", "r", "l", "d", "w", "i", "d", "e">>), Lit(<<"H", "o", "l", "d", "i",
  "n", "g", "s">>), Lit(<<"V", "e", "n", "t", "u", "r", "e", "s">>)>>),
  Alt(<<OneOf(WhiteSpace), Eol, Lit(<<",">>), Lit(<<".">>), Lit(<<"!">>),
  Lit(<<"?">>)>>)>>)

\* line 80, flags 'gi'
digitWordsRegex ==
  Cat(<<WordB, Grp(1, Alt(<<Lit(<<"z", "e", "r", "o">>), Lit(<<"o", "n",
  "e">>), Lit(<<"t", "w", "o">>), Lit(<<"t", "h", "r", "e", "e">>),
  Lit(<<"f", "o", "u", "r">>), Lit(<<"f", "i", "v", "e">>), Lit(<<"s", "i",
  "x">>), Lit(<<"s", "e", "v", "e", "n">>), Lit(<<"e", "i", "g", "h",
  "t">>), Lit(<<"n", "i", "n", "e">>), Lit(<<"o", "h">>), Lit(<<"t", "o">>),
  Lit(<<"t", "o", "o">>), Lit(<<"f", "o", "r">>), Lit(<<"a", "t",
  "e">>)>>)), WordB>>)

\* the digitWords table: the digit a spoken word stands for
wZero == <<"z", "e", "r", "o">>
wOne == <<"o", "n", "e">>
wTwo == <<"t", "w", "o">>
wThree == <<"t", "h", "r", "e", "e">>
wFour == <<"f", "o", "u", "r">>
wFive == <<"f", "i", "v", "e">>
wSix == <<"s", "i", "x">>
wSeven == <<"s", "e", "v", "e", "n">>
wEight == <<"e", "i", "g", "h", "t">>
wNine == <<"n", "i", "n", "e">>
wOh == <<"o", "h">>
wTo == <<"t", "o">>
wToo == <<"t", "o", "o">>
wFor == <<"f", "o", "r">>
wAte == <<"a", "t", "e">>
digitWords(w) ==
  CASE w \in {wZero, wOh} -> "0"
    [] w = wOne -> "1"
    [] w \in {wTwo, wTo, wToo} -> "2"
    [] w = wThree -> "3"
    [] w \in {wFour, wFor} -> "4"
    [] w = wFive -> "5"
    [] w = wSix -> "6"
    [] w = wSeven -> "7"
    [] w \in {wEight, wAte} -> "8"
    [] w = wNine -> "9"

\* the phone of parseContactInfo: the first numeric match, normalised, or else
\* ten spoken digits
WithPlus(phone) ==
  IF Len(phone) = 11 /\ phone[1] = "1" THEN <<"+">> \o phone ELSE phone

WithCountry(digits) ==
  WithPlus(IF Len(digits) = 10 THEN <<"+", "1">> \o digits ELSE digits)

NumericPhone(clean, phoneMatch) ==
  WithCountry(Strip(Whole(clean, phoneMatch), NoneOf(Digits)))

SpokenPhone(digitMatches) ==
  IF Len(digitMatches) >= 10
    THEN <<"+", "1">> \o [i \in 1..10 |-> digitWords(ToLower(digitMatches[i]))]
    ELSE <<>>

PhoneOf(clean, phoneMatch) ==
  IF phoneMatch.found THEN NumericPhone(clean, phoneMatch)
  ELSE SpokenPhone(MatchAll(digitWordsRegex, clean, 1, TRUE))

ExtractPhone(clean) == PhoneOf(clean, Exec(phoneRegex, clean, FALSE))

\* the e-mail of parseContactInfo: patterns 1 to 5, the first that matches
At == <<"@">>
Dot == <<".">>
EmailOf(clean, m1, m2, m3, m4, m5) ==
  LET spaces == OneOf(WhiteSpace)
      dashes == OneOf(WhiteSpace \cup {"-"})
  IN  IF m1.found THEN ToLower(Whole(clean, m1))
      ELSE IF m2.found
        THEN ToLower(Group(clean, m2, 1) \o At \o Group(clean, m2, 2)
                       \o Dot \o Group(clean, m2, 3))
      ELSE IF m3.found
        THEN ToLower(Group(clean, m3, 1) \o At \o Group(clean, m3, 2))
      ELSE IF m4.found
        THEN ToLower(Strip(Group(clean, m4, 1), spaces) \o At
                       \o Strip(Group(clean, m4, 2), spaces) \o Dot
                       \o Strip(Group(clean, m4, 3), spaces))
      ELSE IF m5.found
        THEN ToLower(Strip(Group(clean, m5, 1), dashes) \o At
                       \o Strip(Group(clean, m5, 2), dashes) \o Dot
                       \o Strip(Group(clean, m5, 3), dashes))
      ELSE <<>>

ExtractEmail(clean) ==
  EmailOf(clean, Exec(emailRegex, clean, FALSE),
                 Exec(voiceEmailDotRegex, clean, TRUE),
                 Exec(voiceEmailRegex, clean, TRUE),
                 Exec(spacedEmailRegex, clean, TRUE),
                 Exec(spelledEmailRegex, clean, TRUE))

\* the words the fallback pattern refuses as a name
commonWords ==
  {<<"H", "e", "l", "l", "o">>, <<"H", "i">>, <<"Y", "e", "s">>, <<"N", "o">>,
   <<"O", "k", "a", "y">>, <<"P", "l", "e", "a", "s", "e">>,
   <<"T", "h", "a", "n", "k">>, <<"S", "o", "r", "r", "y">>,
   <<"E", "x", "c", "u", "s", "e">>}

\* the name of parseContactInfo: patterns 1 to 7, the first that matches
FirstLast(firstName, lastName) ==
  IF lastName # <<>> THEN firstName \o <<" ">> \o lastName ELSE firstName

\* the fallback: the first capitalised words, unless one of commonWords is in them
Fallback(found, potentialName) ==
  IF /\ found
     /\ ~\E word \in commonWords :
           Contains(ToLower(potentialName), ToLower(word))
    THEN potentialName
    ELSE <<>>

NameOf(clean, m1, m2, m3, m4, m5, m6, m7) ==
  IF m1.found
    THEN FirstLast(sanitizeInput(Group(clean, m1, 1)),
                   sanitizeInput(Group(clean, m1, 2)))
  ELSE IF m2.found THEN sanitizeInput(Group(clean, m2, 1))
  ELSE IF m3.found THEN sanitizeInput(Group(clean, m3, 1))
  ELSE IF m4.found THEN sanitizeInput(Group(clean, m4, 1))
  ELSE IF m5.found THEN sanitizeInput(Group(clean, m5, 1))
  ELSE IF m6.found THEN sanitizeInput(Group(clean, m6, 1))
  ELSE Fallback(m7.found, sanitizeInput(Group(clean, m7, 1)))

ExtractName(clean) ==
  NameOf(clean, Exec(firstLastRegex, clean, TRUE),
                Exec(fullNameRegex, clean, TRUE),
                Exec(singleNameRegex, clean, TRUE),
                Exec(withNameRegex, clean, TRUE),
                Exec(callingRegex, clean, TRUE),
                Exec(contactNameRegex, clean, TRUE),
                Exec(firstWordsRegex, clean, FALSE))

\* match[0].split(' ').pop(): what follows the last space of s
RECURSIVE LastPart(_)
LastPart(s) ==
  IF s = <<>> \/ s[Len(s)] = " " THEN <<>>
  ELSE LastPart(SubSeq(s, 1, Len(s) - 1)) \o <<s[Len(s)]>>

\* the company of parseContactInfo: patterns 1 to 6, the first that matches
CompanyOf(clean, m1, m2, m3, m4, m5, m6) ==
  LET Joined(m) == Group(clean, m, 1) \o <<" ">> \o LastPart(Whole(clean, m))
  IN  IF m1.found THEN Trim(sanitizeInput(Group(clean, m1, 1)))
      ELSE IF m2.found THEN Trim(sanitizeInput(Group(clean, m2, 1)))
      ELSE IF m3.found THEN Trim(sanitizeInput(Group(clean, m3, 1)))
      ELSE IF m4.found THEN Trim(sanitizeInput(Group(clean, m4, 1)))
      ELSE IF m5.found THEN Trim(sanitizeInput(Joined(m5)))
      ELSE IF m6.found THEN Trim(sanitizeInput(Joined(m6)))
      ELSE <<>>

ExtractCompany(clean) ==
  CompanyOf(clean, Exec(companyNameRegex, clean, TRUE),
                   Exec(workAtRegex, clean, TRUE),
                   Exec(fromCompanyRegex, clean, TRUE),
                   Exec(suffixCompanyRegex, clean, FALSE),
                   Exec(techCompanyRegex, clean, FALSE),
                   Exec(industriesRegex, clean, FALSE))

\* parseContactInfo
Extract(cleanTranscription) ==
  [name |-> ExtractName(cleanTranscription),
   phone |-> ExtractPhone(cleanTranscription),
   email |-> ExtractEmail(cleanTranscription),
   company |-> ExtractCompany(cleanTranscription),
   notes |-> cleanTranscription]

parseContactInfo(transcription) == Extract(sanitizeInput(transcription))

\* -------------------------------------------- the company, validated
\* The other revision of the extractor (unnamed/part_005) passes what the
\* patterns 1 to 3 capture through validateCompanyName.
\* line 236, flags 'i'
trailingWords ==
  Cat(<<Many(OneOf(WhiteSpace), 1, -1), Grp(1, Alt(<<Lit(<<"a", "n", "d">>),
  Lit(<<"p", "l", "e", "a", "s", "e">>), Lit(<<"p", "h", "o", "n", "e">>),
  Lit(<<"e", "m", "a", "i", "l">>), Lit(<<"c", "o", "n", "t", "a", "c",
  "t">>), Lit(<<"m", "y">>), Lit(<<"h", "e", "r">>), Lit(<<"h", "i", "s">>),
  Lit(<<"t", "h", "e", "i", "r">>), Lit(<<"t", "h", "e">>), Lit(<<"a">>),
  Lit(<<"a", "n">>), Lit(<<"i", "s">>), Lit(<<"w", "a", "s">>), Lit(<<"a",
  "r", "e">>), Lit(<<"w", "e", "r", "e">>), Lit(<<"w", "i", "l", "l">>),
  Lit(<<"w", "o", "u", "l", "d">>), Lit(<<"s", "h", "o", "u", "l", "d">>),
  Lit(<<"c", "o", "u", "l", "d">>), Lit(<<"c", "a", "n">>), Lit(<<"m", "a",
  "y">>), Lit(<<"m", "i", "g", "h", "t">>), Lit(<<"h", "a", "s">>),
  Lit(<<"h", "a", "v", "e">>), Lit(<<"h", "a", "d">>), Lit(<<"d", "o">>),
  Lit(<<"d", "o", "e", "s">>), Lit(<<"d", "i", "d">>), Lit(<<"g", "e",
  "t">>), Lit(<<"g", "o", "t">>), Lit(<<"g", "o">>), Lit(<<"g", "o", "e",
  "s">>), Lit(<<"w", "e", "n", "t">>), Lit(<<"c", "o", "m", "e">>),
  Lit(<<"c", "o", "m", "e", "s">>), Lit(<<"c", "a", "m", "e">>), Lit(<<"t",
  "a", "k", "e">>), Lit(<<"t", "a", "k", "e", "s">>), Lit(<<"t", "o", "o",
  "k">>), Lit(<<"m", "a", "k", "e">>), Lit(<<"m", "a", "k", "e", "s">>),
  Lit(<<"m", "a", "d", "e">>), Lit(<<"s", "e", "e">>), Lit(<<"s", "e", "e",
  "s">>), Lit(<<"s", "a", "w">>), Lit(<<"k", "n", "o", "w">>), Lit(<<"k",
  "n", "o", "w", "s">>), Lit(<<"k", "n", "e", "w">>), Lit(<<"t", "h", "i",
  "n", "k">>), Lit(<<"t", "h", "i", "n", "k", "s">>), Lit(<<"t", "h", "o",
  "u", "g", "h", "t">>), Lit(<<"s", "a", "y">>), Lit(<<"s", "a", "y",
  "s">>), Lit(<<"s", "a", "i", "d">>), Lit(<<"t", "e", "l", "l">>),
  Lit(<<"t", "e", "l", "l", "s">>), Lit(<<"t", "o", "l", "d">>), Lit(<<"g",
  "i", "v", "e">>), Lit(<<"g", "i", "v", "e", "s">>), Lit(<<"g", "a", "v",
  "e">>), Lit(<<"p", "u", "t">>), Lit(<<"p", "u", "t", "s">>), Lit(<<"p",
  "u", "t">>), Lit(<<"u", "s", "e">>), Lit(<<"u", "s", "e", "s">>),
  Lit(<<"u", "s", "e", "d">>), Lit(<<"w", "o", "r", "k">>), Lit(<<"w", "o",
  "r", "k", "s">>), Lit(<<"w", "o", "r", "k", "e", "d">>), Lit(<<"c", "a",
  "l", "l">>), Lit(<<"c", "a", "l", "l", "s">>), Lit(<<"c", "a", "l", "l",
  "e", "d">>), Lit(<<"h", "e", "l", "p">>), Lit(<<"h", "e", "l", "p",
  "s">>), Lit(<<"h", "e", "l", "p", "e", "d">>), Lit(<<"t", "r", "y">>),
  Lit(<<"t", "r", "i", "e", "s">>), Lit(<<"t", "r", "i", "e", "d">>)>>)),
  Many(NoneOf({"\n"}), 0, -1), Eol>>)

\* line 243
stopWords ==
  {<<"t", "h", "e">>, <<"a", "n", "d">>, <<"f", "o", "r">>, <<"w", "i", "t",
   "h">>, <<"t", "h", "i", "s">>, <<"t", "h", "a", "t">>, <<"t", "h", "e",
   "m">>, <<"t", "h", "e", "y">>, <<"t", "h", "e", "r", "e">>, <<"t", "h",
   "e", "i", "r">>, <<"t", "h", "e", "n">>, <<"t", "h", "a", "n">>, <<"w",
   "h", "e", "n">>, <<"w", "h", "e", "r", "e">>, <<"w", "h", "a", "t">>,
   <<"w", "h", "i", "c", "h">>, <<"w", "h", "o">>, <<"w", "h", "y">>, <<"h",
   "o", "w">>, <<"c", "a", "n">>, <<"w", "i", "l", "l">>, <<"w", "o", "u",
   "l", "d">>, <<"s", "h", "o", "u", "l", "d">>, <<"c", "o", "u", "l",
   "d">>, <<"m", "a", "y">>, <<"m", "i", "g", "h", "t">>, <<"h", "a", "v",
   "e">>, <<"h", "a", "s">>, <<"h", "a", "d">>, <<"d", "o">>, <<"d", "o",
   "e", "s">>, <<"d", "i", "d">>, <<"g", "e", "t">>, <<"g", "o", "t">>,
   <<"g", "o">>, <<"c", "o", "m", "e">>, <<"t", "a", "k", "e">>, <<"m", "a",
   "k", "e">>, <<"s", "e", "e">>, <<"k", "n", "o", "w">>, <<"t", "h", "i",
   "n", "k">>, <<"s", "a", "y">>, <<"t", "e", "l", "l">>, <<"g", "i", "v",
   "e">>, <<"p", "u", "t">>, <<"u", "s", "e">>, <<"w", "o", "r", "k">>,
   <<"c", "a", "l", "l">>, <<"h", "e", "l", "p">>, <<"t", "r", "y">>}

\* line 255, flags 'i'
strictCompanyNameRegex ==
  Cat(<<Alt(<<Lit(<<"c", "o", "m", "p", "a", "n", "y", " ", "n", "a", "m",
  "e">>), Lit(<<"c", "o", "m", "p", "a", "n", "y">>), Lit(<<"o", "r", "g",
  "a", "n", "i", "z", "a", "t", "i", "o", "n">>), Lit(<<"b", "u", "s", "i",
  "n", "e", "s", "s">>), Lit(<<"e", "m", "p", "l", "o", "y", "e", "r">>)>>),
  Many(OneOf(WhiteSpace), 1, -1), Many(Cat(<<Lit(<<"i", "s">>),
  Many(OneOf(WhiteSpace), 1, -1)>>), 0, 1), Grp(1, Cat(<<OneOf(UpperSet),
  Many(OneOf(LowerSet \cup UpperSet \cup WhiteSpace \cup {"&", ".", "-"}),
  2, 20)>>)), Alt(<<WordB, Eol, OneOf({",", "."})>>)>>)

\* line 267, flags 'i'
strictWorkAtRegex ==
  Cat(<<Alt(<<Lit(<<"i", " ", "w", "o", "r", "k">>), Lit(<<"w", "o", "r",
  "k">>), Lit(<<"w", "o", "r", "k", "i", "n", "g">>), Lit(<<"e", "m", "p",
  "l", "o", "y", "e", "d">>)>>), Many(OneOf(WhiteSpace), 1, -1),
  Alt(<<Lit(<<"a", "t">>), Lit(<<"f", "o", "r">>), Lit(<<"w", "i", "t",
  "h">>)>>), Many(OneOf(WhiteSpace), 1, -1), Grp(1, Cat(<<OneOf(UpperSet),
  Many(OneOf(LowerSet \cup UpperSet \cup WhiteSpace \cup {"&", ".", "-"}),
  2, 20)>>)), Alt(<<WordB, Eol, OneOf({",", "."})>>)>>)

\* line 280, flags 'i'
withRegex ==
  Cat(<<Lit(<<"i">>), Alt(<<Lit(<<"'", "m", " ", "w", "i", "t", "h">>),
  Lit(<<"m", " ", "w", "i", "t", "h">>), Lit(<<" ", "a", "m", " ", "w", "i",
  "t", "h">>), Lit(<<"'", "m", " ", "f", "r", "o", "m">>), Lit(<<"m", " ",
  "f", "r", "o", "m">>), Lit(<<" ", "a", "m", " ", "f", "r", "o", "m">>)>>),
  Many(OneOf(WhiteSpace), 1, -1), Grp(1, Cat(<<OneOf(UpperSet),
  Many(OneOf(LowerSet \cup UpperSet \cup WhiteSpace \cup {"&", ".", "-"}),
  2, 20)>>)), Alt(<<WordB, Eol, OneOf({",", "."})>>)>>)

\* what is before the first space of s, and the number of its words
FirstWord(s) ==
  LET spaces == {i \in 1..Len(s) : s[i] = " "}
  IN  IF spaces = {} THEN s
      ELSE SubSeq(s, 1, (CHOOSE i \in spaces : \A k \in spaces : i <= k) - 1)

WordCount(s) ==
  Cardinality({i \in 1..Len(s) : s[i] # " " /\ (i = 1 \/ s[i - 1] = " ")})

\* cleaned.replace(trailingWords, ''): s without the first match m
Without(s, m) ==
  IF m.found THEN SubSeq(s, 1, m.first - 1) \o SubSeq(s, m.last + 1, Len(s))
  ELSE s

\* the checks of validateCompanyName on the cleaned name ('' stands for null)
Checked(cleaned) ==
  IF Len(cleaned) < 3 \/ Len(cleaned) > 25 THEN <<>>
  ELSE IF ToLower(FirstWord(cleaned)) \in stopWords THEN <<>>
  ELSE IF WordCount(cleaned) > 3 THEN <<>>
  ELSE cleaned

Cleaned(trimmed) == Without(trimmed, Exec(trailingWords, trimmed, TRUE))

validateCompanyName(companyName) ==
  IF companyName = <<>> THEN <<>> ELSE Checked(Cleaned(Trim(companyName)))

Validated(clean, m) ==
  IF m.found THEN validateCompanyName(Group(clean, m, 1)) ELSE <<>>

FirstValid(v1, v2, v3) ==
  IF v1 # <<>> THEN v1 ELSE IF v2 # <<>> THEN v2 ELSE v3

\* the company the patterns 1 to 3 of that revision give, or ''
ValidatedCompany(clean) ==
  FirstValid(Validated(clean, Exec(strictCompanyNameRegex, clean, TRUE)),
             Validated(clean, Exec(strictWorkAtRegex, clean, TRUE)),
             Validated(clean, Exec(withRegex, clean, TRUE)))

\* ------------------------------------------------- the client pipelines
\* Two components drive the pipeline in the browser: VoiceRecorder
\* (components/VoiceRecorder.tsx) and Home (pages/index.tsx).  Texts shown to
\* the user are abbreviated; fields whose length or shape the code tests are
\* sequences of characters.
Pages == {"VoiceRecorder", "Home"}

sShortPhone == <<"5", "5", "5">>
sBadEmail == <<"a", "n", "n">>

\* responses of /api/transcribe with response.ok, by name
DraftNames == {"full", "nameOnly", "bare", "silent"}

DraftOf(d) ==
  CASE d = "full" -> [transcription |-> "text", name |-> sAnnLee, phone |-> sPhonePlain,
                      email |-> sEmailMixed, company |-> sAcme]
    [] d = "nameOnly" -> [transcription |-> "text", name |-> sAnnLee, phone |-> <<>>,
                          email |-> <<>>, company |-> <<>>]
    [] d = "bare" -> [transcription |-> "text", name |-> <<>>, phone |-> <<>>,
                      email |-> <<>>, company |-> <<>>]
    [] d = "silent" -> [transcription |-> "", name |-> <<>>, phone |-> <<>>,
                        email |-> <<>>, company |-> <<>>]

\* result.transcription as text: what was said in the recording of draft d
sHeard ==
  <<"A", "n", "n", " ", "L", "e", "e", ",", " ", "c", "a", "l", "l", " ", "m", "e">>
TranscriptOf(d) ==
  IF d \in DraftNames /\ DraftOf(d).transcription # "" THEN sHeard ELSE <<>>

NoEditable == [firstName |-> <<>>, lastName |-> <<>>, phone |-> <<>>,
               email |-> <<>>, company |-> <<>>]

\* name.trim().split(' '): nameParts[0] and nameParts.slice(1).join(' ')
RECURSIVE FirstPart(_)
FirstPart(s) ==
  IF s = <<>> \/ s[1] = " " THEN <<>> ELSE <<s[1]>> \o FirstPart(Tail(s))

RestParts(s) ==
  IF Len(FirstPart(s)) >= Len(s) THEN <<>>
  ELSE SubSeq(s, Len(FirstPart(s)) + 2, Len(s))

\* the form prefilled from a draft
EditableOf(d) ==
  [firstName |-> FirstPart(Trim(DraftOf(d).name)),
   lastName |-> RestParts(Trim(DraftOf(d).name)),
   phone |-> DraftOf(d).phone,
   email |-> DraftOf(d).email,
   company |-> DraftOf(d).company]

\* useState/useRef initial values, and no asynchronous work pending:
\* media = getUserMedia calls pending, stopped = onstop events pending,
\* fetches = calls of /api/transcribe pending, submits = calls of
\* /api/submit-contact pending, recorders = MediaRecorder objects started and
\* not stopped (ref is true once mediaRecorderRef.current holds one of them)
InitUi ==
  [isRecording |-> FALSE, isProcessing |-> FALSE, transcription |-> "",
   contactData |-> "null", editableData |-> NoEditable, isEditing |-> FALSE,
   submissionResult |-> "", error |-> "", ref |-> FALSE,
   media |-> 0, stopped |-> 0, fetches |-> 0, submits |-> 0, recorders |-> 0]

\* a user gesture; the run has room for one more
Gesture ==
  /\ clicks < MaxClicks
  /\ clicks' = clicks + 1

\* click on Start Recording, rendered when !isRecording && !isProcessing
StartClick ==
  /\ ~ui.isRecording /\ ~ui.isProcessing
  /\ Gesture
  /\ ui' = [ui EXCEPT !.media = @ + 1]
  /\ UNCHANGED <<page, posts>>
  /\ UNCHANGED serverVars

\* startRecording after getUserMedia resolved
MediaGranted ==
  /\ ui.media > 0
  /\ ui' = [ui EXCEPT !.media = @ - 1, !.ref = TRUE, !.recorders = @ + 1,
                      !.isRecording = TRUE, !.error = ""]
  /\ UNCHANGED <<page, posts, clicks>>
  /\ UNCHANGED serverVars

\* startRecording after getUserMedia rejected: the catch
MediaDenied ==
  /\ ui.media > 0
  /\ ui' = [ui EXCEPT !.media = @ - 1, !.error = "Failed to access microphone"]
  /\ UNCHANGED <<page, posts, clicks>>
  /\ UNCHANGED serverVars

\* click on Stop Recording, rendered when isRecording
StopClick ==
  /\ ui.isRecording
  /\ Gesture
  /\ ui' = IF ui.ref /\ ui.isRecording
             THEN [ui EXCEPT !.stopped = @ + 1, !.recorders = @ - 1,
                             !.isRecording = FALSE, !.isProcessing = TRUE]
             ELSE ui
  /\ UNCHANGED <<page, posts>>
  /\ UNCHANGED serverVars

\* mediaRecorder.onstop: processAudio up to its fetch; VoiceRecorder refuses
\* an empty blob
OnStop ==
  /\ ui.stopped > 0
  /\ \E empty \in BOOLEAN :
       ui' = IF page = "VoiceRecorder" /\ empty
               THEN [ui EXCEPT !.stopped = @ - 1, !.error = "No audio data recorded",
                               !.isProcessing = FALSE]
               ELSE [ui EXCEPT !.stopped = @ - 1, !.fetches = @ + 1]
  /\ UNCHANGED <<page, posts, clicks>>
  /\ UNCHANGED serverVars

\* mutant: setIsProcessing(false) is not in a finally block, a failed request
\* leaves the flag set
ProcessAudioRecorderNoFinally(u, d) ==
  IF d = "error"
    THEN [u EXCEPT !.fetches = @ - 1, !.error = "Server error"]
    ELSE [u EXCEPT !.fetches = @ - 1,
                   !.transcription = IF DraftOf(d).transcription # ""
                                       THEN DraftOf(d).transcription
                                       ELSE "No transcription available",
                   !.contactData = d,
                   !.editableData = EditableOf(d),
                   !.isEditing = IF DraftOf(d).transcription # "" THEN TRUE ELSE @,
                   !.error = IF DraftOf(d).transcription # "" THEN @
                             ELSE "No transcription was generated",
                   !.isProcessing = FALSE]

\* mutant: a draft without name and phone is rejected, no form is opened
ProcessAudioRecorderRejectBare(u, d) ==
  IF d = "error" \/ (DraftOf(d).name = <<>> /\ DraftOf(d).phone = <<>>)
    THEN [u EXCEPT !.fetches = @ - 1, !.error = "Server error", !.isProcessing = FALSE]
    ELSE [u EXCEPT !.fetches = @ - 1,
                   !.transcription = DraftOf(d).transcription,
                   !.contactData = d,
                   !.editableData = EditableOf(d),
                   !.isEditing = TRUE,
                   !.isProcessing = FALSE]

\* VoiceRecorder.processAudio after its fetch settled with the draft d, or
\* failed (d = "error")
ProcessAudioRecorder(u, d) ==
  IF d = "error"
    THEN [u EXCEPT !.fetches = @ - 1, !.error = "Server error", !.isProcessing = FALSE]
    ELSE [u EXCEPT !.fetches = @ - 1,
                   !.transcription = IF DraftOf(d).transcription # ""
                                       THEN DraftOf(d).transcription
                                       ELSE "No transcription available",
                   !.contactData = d,
                   !.editableData = EditableOf(d),
                   !.isEditing = IF DraftOf(d).transcription # "" THEN TRUE ELSE @,
                   !.error = IF DraftOf(d).transcription # "" THEN @
                             ELSE "No transcription was generated",
                   !.isProcessing = FALSE]

\* Home.processAudio: "Auto-submit if we have required data"
AutoSubmits(d) == d # "error" /\ DraftOf(d).name # <<>> /\ DraftOf(d).phone # <<>>

\* Home.processAudio after its fetch settled, up to the await of submitContact
ProcessAudioHome(u, d) ==
  IF d = "error"
    THEN [u EXCEPT !.fetches = @ - 1, !.error = "Failed to process audio",
                   !.isProcessing = FALSE]
    ELSE [u EXCEPT !.fetches = @ - 1,
                   !.transcription = DraftOf(d).transcription,
                   !.contactData = d,
                   !.submits = IF AutoSubmits(d) THEN @ + 1 ELSE @,
                   !.isProcessing = IF AutoSubmits(d) THEN @ ELSE FALSE]

\* the POST of submitContact(data), sent from the function named by
\* `by`: its fields; notes is Undef when the object has no notes property
PostOf(by, name, phone, email, company, notes) ==
  [by |-> by, name |-> name, phone |-> phone, email |-> email,
   company |-> company, notes |-> notes]

\* the response of /api/transcribe arrives
TranscribeResponse ==
  /\ ui.fetches > 0
  /\ \E d \in DraftNames \cup {"error"} :
       IF page = "VoiceRecorder"
         THEN /\ ui' = ProcessAudioRecorder(ui, d)
              /\ UNCHANGED posts
         ELSE /\ ui' = ProcessAudioHome(ui, d)
              /\ posts' = IF AutoSubmits(d)
                            THEN Append(posts, PostOf("processAudio", DraftOf(d).name,
                                   DraftOf(d).phone, DraftOf(d).email, DraftOf(d).company,
                                   Str(sanitizeInput(TranscriptOf(d)))))
                            ELSE posts
  /\ UNCHANGED <<page, clicks>>
  /\ UNCHANGED serverVars

\* what the user may type into a field of the review form
EditFields == {"firstName", "phone", "email"}

EditValues(field) ==
  CASE field = "firstName" -> {<<>>, <<"A">>, sAnn}
    [] field = "phone" -> {<<>>, sShortPhone, sPhoneParen}
    [] field = "email" -> {<<>>, sBadEmail}

\* onChange of a field of the review form, rendered when isEditing
Edit ==
  /\ page = "VoiceRecorder"
  /\ ui.isEditing
  /\ Gesture
  /\ \E field \in EditFields : \E value \in EditValues(field) :
       /\ ui.editableData[field] # value
       /\ ui' = [ui EXCEPT !.editableData[field] = value]
  /\ UNCHANGED <<page, posts>>
  /\ UNCHANGED serverVars

\* `${firstName} ${lastName}`.trim()
FullName(e) == Trim(e.firstName \o <<" ">> \o e.lastName)

\* handleEditSubmit: the message of the check that fails, "" when none does
EditError(e) ==
  IF FullName(e) = <<>> \/ Len(FullName(e)) < 2 THEN "Please enter a valid name"
  ELSE IF e.phone = <<>> \/ Len(e.phone) < MinPhoneLen
    THEN "Please enter a valid phone number"
  ELSE IF e.email # <<>> /\ ~EmailFormatOk(e.email)
    THEN "Please enter a valid email address"
  ELSE ""

\* click on Submit Contact, enabled when firstName and phone are not empty:
\* handleEditSubmit up to the await of submitContact
SubmitClick ==
  /\ page = "VoiceRecorder"
  /\ ui.isEditing
  /\ ui.editableData.firstName # <<>> /\ ui.editableData.phone # <<>>
  /\ Gesture
  /\ LET e == ui.editableData
     IN  IF EditError(e) # ""
           THEN /\ ui' = [ui EXCEPT !.error = EditError(e)]
                /\ UNCHANGED posts
           ELSE /\ ui' = [ui EXCEPT !.error = "", !.submits = @ + 1]
                /\ posts' = Append(posts, PostOf("handleEditSubmit", FullName(e),
                                                 e.phone, e.email, e.company, Undef))
  /\ UNCHANGED page
  /\ UNCHANGED serverVars

\* how a call of /api/submit-contact settles
SubmitOutcomes == {"success", "nosuccess", "http", "network"}

\* VoiceRecorder.submitContact after its fetch settled; !response.ok throws
ResultRecorder(o) ==
  CASE o = "success" -> "Contact submitted successfully"
    [] o = "nosuccess" -> "Contact processed but submission failed"
    [] OTHER -> "Submission failed"

\* Home.submitContact after its fetch settled; response.ok is not looked at
ResultHome(o) ==
  CASE o = "success" -> "Contact submitted successfully"
    [] o = "network" -> "Failed to submit contact"
    [] OTHER -> "Contact processed but submission failed"

\* the response of /api/submit-contact arrives: the rest of submitContact,
\* then of its caller (handleEditSubmit: setIsEditing(false); processAudio:
\* finally setIsProcessing(false))
SubmitResponse ==
  /\ ui.submits > 0
  /\ \E o \in SubmitOutcomes :
       ui' = IF page = "VoiceRecorder"
               THEN [ui EXCEPT !.submits = @ - 1,
                               !.submissionResult = ResultRecorder(o),
                               !.isEditing = FALSE]
               ELSE [ui EXCEPT !.submits = @ - 1,
                               !.submissionResult = ResultHome(o),
                               !.isProcessing = FALSE]
  /\ UNCHANGED <<page, posts, clicks>>
  /\ UNCHANGED serverVars

\* resetForm
resetForm(u) ==
  [u EXCEPT !.transcription = "", !.contactData = "null",
            !.editableData = NoEditable, !.isEditing = FALSE,
            !.submissionResult = "", !.error = ""]

\* click on Cancel of the review form: setIsEditing(false); resetForm()
Cancel ==
  /\ page = "VoiceRecorder"
  /\ ui.isEditing
  /\ Gesture
  /\ ui' = resetForm(ui)
  /\ UNCHANGED <<page, posts>>
  /\ UNCHANGED serverVars

ResetShown ==
  /\ ui.transcription # "" \/ ui.contactData # "null" \/ ui.submissionResult # ""
  /\ ~ui.isEditing

\* click on Reset
Reset ==
  /\ ResetShown
  /\ Gesture
  /\ ui' = resetForm(ui)
  /\ UNCHANGED <<page, posts>>
  /\ UNCHANGED serverVars

\* the alert of the submission result is closed
AlertClose ==
  /\ page = "VoiceRecorder"
  /\ ui.submissionResult # ""
  /\ Gesture
  /\ ui' = [ui EXCEPT !.submissionResult = ""]
  /\ UNCHANGED <<page, posts>>
  /\ UNCHANGED serverVars

\* one of the two components is mounted; the server is not looked at
InitClient ==
  /\ InitStore
  /\ ghlConfigured = TRUE
  /\ openaiKey = sSecretKey
  /\ reqs = [r \in Slots |-> Idle]
  /\ page \in Pages
  /\ ui = InitUi
  /\ posts = <<>>
  /\ clicks = 0

NextClient ==
  \/ StartClick
  \/ MediaGranted
  \/ MediaDenied
  \/ StopClick
  \/ OnStop
  \/ TranscribeResponse
  \/ Edit
  \/ SubmitClick
  \/ SubmitResponse
  \/ Cancel
  \/ Reset
  \/ AlertClose

\* the browser side
SpecClient == InitClient /\ [][NextClient]_vars

\* the browser side when every pending event is delivered: the recorder fires
\* onstop after stop(), and a fetch settles (response or network error)
SpecClientFair ==
  /\ SpecClient
  /\ WF_vars(OnStop)
  /\ WF_vars(TranscribeResponse)
  /\ WF_vars(SubmitResponse)

\* ================================================== POST /api/transcribe
\* maxFileSize: 10 * 1024 * 1024
MaxFileSize == 10485760

sAudio == <<"a", "u", "d", "i", "o">>
sFile == <<"f", "i", "l", "e">>
sAudioSlash == <<"a", "u", "d", "i", "o", "/">>
sAudioWebm == <<"a", "u", "d", "i", "o", "/", "w", "e", "b", "m">>
sOctetStream ==
  <<"a", "p", "p", "l", "i", "c", "a", "t", "i", "o", "n", "/", "o", "c", "t",
    "e", "t", "-", "s", "t", "r", "e", "a", "m">>
sTextPlain == <<"t", "e", "x", "t", "/", "p", "l", "a", "i", "n">>

\* the file part of the multipart body a caller may send, by name: the form
\* field it comes in, its Content-Type (<<>> when it has none), its size
UploadNames == {"none", "webm", "bare", "octet", "text", "untyped", "misnamed",
                "empty", "full", "oversize"}

UploadOf(b) ==
  LET Part(name, mimetype, size) ==
        [present |-> TRUE, name |-> name, mimetype |-> mimetype, size |-> size]
  IN  CASE b = "none" ->
             [present |-> FALSE, name |-> <<>>, mimetype |-> <<>>, size |-> 0]
        [] b = "webm" -> Part(sAudio, sAudioWebm, 1)
        [] b = "bare" -> Part(sAudio, sAudioSlash, 1)
        [] b = "octet" -> Part(sAudio, sOctetStream, 1)
        [] b = "text" -> Part(sAudio, sTextPlain, 1)
        [] b = "untyped" -> Part(sAudio, <<>>, 1)
        [] b = "misnamed" -> Part(sFile, sAudioWebm, 1)
        [] b = "empty" -> Part(sAudio, sAudioWebm, 0)
        [] b = "full" -> Part(sAudio, sAudioWebm, MaxFileSize)
        [] b = "oversize" -> Part(sAudio, sAudioWebm, MaxFileSize + 1)

\* mutant: the filter keeps every part that has a Content-Type
UploadFilterAnyType(part) == part.name = sAudio /\ part.mimetype # <<>>

\* the filter option of formidable
UploadFilter(part) ==
  /\ part.name = sAudio
  /\ part.mimetype # <<>>
  /\ (StartsWith(part.mimetype, sAudioSlash) \/ part.mimetype = sOctetStream)

\* form.parse(req): a part the filter refuses is skipped; a kept part larger
\* than maxFileSize makes the promise reject
ParseForm(part) ==
  IF ~part.present \/ ~UploadFilter(part)
    THEN [threw |-> FALSE, audio |-> FALSE]
  ELSE IF part.size > MaxFileSize THEN [threw |-> TRUE, audio |-> FALSE]
  ELSE [threw |-> FALSE, audio |-> TRUE]

\* mutant: the credential is not looked at before the upstream call
TranscribeEntryNoKeyCheck(rec) ==
  LET part == UploadOf(rec.body)
      form == ParseForm(part)
  IN  IF rec.method # "POST" THEN Done(rec, ErrResp(405, "Method not allowed"))
      ELSE IF rec.user = NoSession
        THEN Done(rec, ErrResp(401, "Authentication required"))
      ELSE IF form.threw THEN Done(rec, ErrResp(500, "Failed to transcribe audio"))
      ELSE IF ~form.audio THEN Done(rec, ErrResp(400, "No audio file provided"))
      ELSE IF part.size = 0 THEN Done(rec, ErrResp(400, "Empty audio file"))
      ELSE [rec EXCEPT !.pc = "stt"]

\* the handler up to the call of the speech-to-text API
TranscribeEntry(rec) ==
  LET part == UploadOf(rec.body)
      form == ParseForm(part)
  IN  IF rec.method # "POST" THEN Done(rec, ErrResp(405, "Method not allowed"))
      ELSE IF rec.user = NoSession
        THEN Done(rec, ErrResp(401, "Authentication required"))
      ELSE IF form.threw THEN Done(rec, ErrResp(500, "Failed to transcribe audio"))
      ELSE IF ~form.audio THEN Done(rec, ErrResp(400, "No audio file provided"))
      ELSE IF part.size = 0 THEN Done(rec, ErrResp(400, "Empty audio file"))
      ELSE IF openaiKey = <<>> \/ openaiKey = sPlaceholderKey
        THEN Done(rec, ErrResp(500, "OpenAI API key not configured"))
      ELSE IF ~StartsWith(openaiKey, sKeyPrefix)
        THEN Done(rec, ErrResp(500, "Invalid API key format"))
      ELSE [rec EXCEPT !.pc = "stt"]

TranscribeStart(r) ==
  /\ reqs[r].pc = "idle"
  /\ \E method \in {"POST", "GET"}, user \in Sessions, body \in UploadNames :
       \* inputs the handler never reads on the path taken are held fixed
       /\ method # "POST" => user = NoSession
       /\ user = NoSession => body = "webm"
       \* every user uploads the webm recording, u1 the others too
       /\ body # "webm" => user = "u1"
       /\ reqs' = [reqs EXCEPT ![r] =
            TranscribeEntry([Idle EXCEPT !.kind = "transcribe", !.method = method,
                                         !.user = user, !.body = body])]
  /\ UNCHANGED <<workspaces, memberships, contacts, usageLogs, nextId,
                 ghlConfigured, openaiKey>>
  /\ UNCHANGED clientVars

\* transcripts the speech-to-text API returns in the runs of the handler
sAnnLeeComma ==
  <<"A", "n", "n", " ", "L", "e", "e", ",", " ", "5", "5", "5", "1", "2", "3",
    "4", "5", "6", "7">>
sCallNumber ==
  <<"c", "a", "l", "l", " ", "5", "5", "5", "1", "2", "3", "4", "5", "6", "7">>
Transcripts == {<<>>, sAnnLee, sCallNumber, sAnnLeeComma}

\* openai.audio.transcriptions.create: a transcript comes back, or the call
\* throws (authentication, quota, network) and the catch answers 500
TranscribeStt(r) ==
  /\ reqs[r].pc = "stt"
  /\ \/ \E text \in Transcripts :
          reqs' = [reqs EXCEPT ![r] =
            [@ EXCEPT !.sttCalls = @ + 1, !.transcript = text, !.pc = "parse"]]
     \/ reqs' = [reqs EXCEPT ![r] =
          Done([@ EXCEPT !.sttCalls = @ + 1],
               ErrResp(500, "Failed to transcribe audio"))]
  /\ UNCHANGED <<workspaces, memberships, contacts, usageLogs, nextId,
                 ghlConfigured, openaiKey>>
  /\ UNCHANGED clientVars

\* parseContactInfo, evaluated once for the transcripts of the handler's runs
ParsedTranscripts == [text \in Transcripts |-> parseContactInfo(text)]
Parsed(text) ==
  IF text \in Transcripts THEN ParsedTranscripts[text] ELSE parseContactInfo(text)

\* contactData = parseContactInfo(transcriptionText), then the call of
\* ensureUserHasWorkspace
TranscribeParse(r) ==
  /\ reqs[r].pc = "parse"
  /\ reqs' = [reqs EXCEPT ![r] =
       [@ EXCEPT !.contactData = Parsed(reqs[r].transcript),
                 !.pc = "ws_read"]]
  /\ UNCHANGED <<workspaces, memberships, contacts, usageLogs, nextId,
                 ghlConfigured, openaiKey>>
  /\ UNCHANGED clientVars

\* mutant: the usage row records the length of the sanitized transcript
TranscribeLogRowSanitized(rec) ==
  [id |-> nextId, workspaceId |-> rec.workspace.id, userId |-> rec.user,
   action |-> "transcribe",
   transcriptionLength |-> Len(rec.contactData.notes),
   contactDataExtracted |->
     rec.contactData.name # <<>> /\ rec.contactData.phone # <<>>]

TranscribeLogRow(rec) ==
  [id |-> nextId, workspaceId |-> rec.workspace.id, userId |-> rec.user,
   action |-> "transcribe",
   transcriptionLength |-> Len(rec.transcript),
   contactDataExtracted |->
     rec.contactData.name # <<>> /\ rec.contactData.phone # <<>>]

\* prisma.usageLog.create, then the 200 response {transcription, contactData,
\* success: true} (the transcript and the draft stay in the request record)
TranscribeLog(r) ==
  /\ reqs[r].pc = "tlog"
  /\ usageLogs' = usageLogs \cup {TranscribeLogRow(reqs[r])}
  /\ nextId' = nextId + 1
  /\ reqs' = [reqs EXCEPT ![r] =
       Done([@ EXCEPT !.usageLog = nextId, !.writes = @ \cup {"log"}],
            [NoResp EXCEPT !.code = 200, !.success = TRUE])]
  /\ UNCHANGED <<workspaces, memberships, contacts, ghlConfigured, openaiKey>>
  /\ UNCHANGED clientVars

\* mutant: the usage log is written in a try of its own, a failure is logged
\* and the handler answers 200
TranscribeFaultSwallowed(r) ==
  /\ reqs[r].pc = "tlog"
  /\ reqs' = [reqs EXCEPT ![r] =
       Done(@, [NoResp EXCEPT !.code = 200, !.success = TRUE])]
  /\ UNCHANGED <<workspaces, memberships, contacts, usageLogs, nextId,
                 ghlConfigured, openaiKey>>
  /\ UNCHANGED clientVars

\* prisma.usageLog.create throws: the catch answers 500
TranscribeFault(r) ==
  /\ reqs[r].pc = "tlog"
  /\ reqs' = [reqs EXCEPT ![r] =
       Done(@, ErrResp(500, "Failed to transcribe audio"))]
  /\ UNCHANGED <<workspaces, memberships, contacts, usageLogs, nextId,
                 ghlConfigured, openaiKey>>
  /\ UNCHANGED clientVars

InitTranscribe ==
  /\ InitStore
  /\ ghlConfigured = TRUE
  /\ openaiKey \in ApiKeys
  /\ reqs = [r \in Slots |-> Idle]
  /\ NoClient

NextTranscribe ==
  \E r \in Slots :
    \/ NextSlot(r) /\ TranscribeStart(r)
    \/ TranscribeStt(r)
    \/ TranscribeParse(r)
    \/ EnsureRead(r)
    \/ EnsureSlugProbe(r)
    \/ EnsureCreate(r)
    \/ EnsureDefault(r)
    \/ TranscribeLog(r)
    \/ EnsureFault(r)
    \/ TranscribeFault(r)

\* the /api/transcribe handler over the store, any store query may fail
SpecTranscribe == InitTranscribe /\ [][NextTranscribe]_vars

\* ================================================== parseContactInfo on its own
\* the transcript of end-to-end scenario 1
sScenario1 ==
  <<"M", "y", " ", "n", "a", "m", "e", " ", "i", "s", " ", "J", "o", "h",
    "n", " ", "S", "m", "i", "t", "h", ",", " ", "p", "h", "o", "n", "e",
    " ", "5", "5", "5", "-", "1", "2", "3", "-", "4", "5", "6", "7", ",",
    " ", "e", "m", "a", "i", "l", " ", "j", "o", "h", "n", " ", "a", "t",
    " ", "g", "m", "a", "i", "l", " ", "d", "o", "t", " ", "c", "o", "m">>

\* transcripts that say an e-mail address local@domain: the local parts, the
\* domains, and the text before and after the address
sLocalPlain == <<"a", "n", "n">>
sLocalDotted == <<"A", "n", "n", ".", "L", "e", "e">>
sLocalUnder == <<"a", "_", "b">>
sLocalDash == <<"a", "-", "b">>
sLocalPercent == <<"a", "%", "b">>
sLocalPlus == <<"a", "+", "b">>
sLocalDigit == <<"a", "1">>
sDomainShort == <<"x", ".", "i", "o">>
sDomainMixed ==
  <<"M", "a", "i", "l", ".", "E", "x", "a", "m", "p", "l", "e", ".", "C",
    "O", "M">>
sBeforeEmail == <<"e", "m", "a", "i", "l", " ">>
sBeforeSentence ==
  <<"y", "o", "u", " ", "c", "a", "n", " ", "r", "e", "a", "c", "h", " ",
    "m", "e", " ", "a", "t", " ">>
sAfterThanks == <<",", " ", "t", "h", "a", "n", "k", "s">>
sAfterStop == <<".">>
EmailLocals == {sLocalPlain, sLocalDotted, sLocalUnder, sLocalDash,
                sLocalPercent, sLocalPlus, sLocalDigit}
EmailDomains == {sDomainShort, sDomainMixed}
EmailBefores == {<<>>, sBeforeEmail, sBeforeSentence}
EmailAfters == {<<>>, sAfterThanks, sAfterStop}
EmailAddress(local, domain) == local \o At \o domain
EmailTranscripts ==
  {before \o EmailAddress(local, domain) \o after :
     before \in EmailBefores, local \in EmailLocals,
     domain \in EmailDomains, after \in EmailAfters}

\* transcripts that speak a number: words before, a run of number-words, and
\* words after; and sentences with number-words among other words
wCall == <<"c", "a", "l", "l">>
wMe == <<"m", "e">>
wAt == <<"a", "t">>
wReach == <<"r", "e", "a", "c", "h">>
wThanks == <<"t", "h", "a", "n", "k", "s">>
wYou == <<"y", "o", "u">>
wGo == <<"g", "o">>
wStay == <<"s", "t", "a", "y">>
wAnd == <<"a", "n", "d">>
wFiveCap == <<"F", "i", "v", "e">>
wThreeCap == <<"T", "h", "r", "e", "e">>
NumberWords == {wZero, wOne, wTwo, wThree, wFour, wFive, wSix, wSeven, wEight,
                wNine, wOh, wTo, wToo, wFor, wAte}
TenWords == <<wFive, wFive, wFive, wOne, wTwo, wThree, wFour, wFive, wSix, wSeven>>
NineWords == SubSeq(TenWords, 1, 9)
TenHomophones ==
  <<wFiveCap, wFive, wFive, wOh, wOne, wTo, wThreeCap, wFor, wAte, wNine>>
ScatteredTen ==
  <<wOne, wFor, wYou, wTwo, wFor, wMe, wThree, wTo, wGo, wFour, wTo, wStay,
    wAnd, wFive, wToo>>
ScatteredFour == SubSeq(ScatteredTen, 1, 6)
SpokenBefores == {<<>>, <<wCall, wMe, wAt>>, <<wTo, wReach, wMe, wCall>>}
SpokenRuns == {TenWords, NineWords, TenHomophones}
SpokenAfters == {<<>>, <<wThanks>>}
SpokenInputs ==
  {before \o run \o after :
     before \in SpokenBefores, run \in SpokenRuns, after \in SpokenAfters}
    \cup {ScatteredTen, ScatteredFour}

\* the words of ws with one space between them
RECURSIVE JoinWords(_)
JoinWords(ws) ==
  IF ws = <<>> THEN <<>>
  ELSE IF Len(ws) = 1 THEN ws[1]
  ELSE ws[1] \o <<" ">> \o JoinWords(Tail(ws))

SpokenTranscripts == {JoinWords(ws) : ws \in SpokenInputs}

\* transcripts that hold one ten-digit number: the area code, the ways its
\* three groups are written, and the text before and after the number
sAreaFives == <<"5", "5", "5">>
sAreaOne == <<"1", "5", "5">>
sExchange == <<"1", "2", "3">>
sLine == <<"4", "5", "6", "7">>
sLa == <<"l", "a", " ">>
sBeforeCall == <<"c", "a", "l", "l", " ">>
\* a minute of speech: 999 characters of words
sBeforeLong == [i \in 1..(InputLimit - 1) |-> sLa[((i - 1) % 3) + 1]]
sAfterWord == <<" ", "t", "h", "a", "n", "k", "s">>
PhoneStyles == {"plain", "dashed", "dotted", "spaced", "paren", "parenTight"}
Grouped(style, area) ==
  CASE style = "plain" -> area \o sExchange \o sLine
    [] style = "dashed" -> area \o <<"-">> \o sExchange \o <<"-">> \o sLine
    [] style = "dotted" -> area \o <<".">> \o sExchange \o <<".">> \o sLine
    [] style = "spaced" -> area \o <<" ">> \o sExchange \o <<" ">> \o sLine
    [] style = "paren" ->
         <<"(">> \o area \o <<")", " ">> \o sExchange \o <<"-">> \o sLine
    [] style = "parenTight" ->
         <<"(">> \o area \o <<")">> \o sExchange \o <<"-">> \o sLine
PhoneAreas == {sAreaFives, sAreaOne}
PhoneBefores == {<<>>, sBeforeCall}
PhoneAfters == {<<>>, sAfterWord}
PhoneCases ==
  [before : PhoneBefores, style : PhoneStyles, area : PhoneAreas,
   after : PhoneAfters]
    \cup {[before |-> sBeforeLong, style |-> "dashed", area |-> sAreaFives,
           after |-> <<>>]}
Spoken(case) == case.before \o Grouped(case.style, case.area) \o case.after
PhoneTranscripts == {Spoken(case) : case \in PhoneCases}

\* transcripts that mention a company: the phrase that introduces it, the
\* company, and the text after it
sIntroCompany ==
  <<"m", "y", " ", "c", "o", "m", "p", "a", "n", "y", " ", "i", "s", " ">>
sIntroWork == <<"I", " ", "w", "o", "r", "k", " ", "a", "t", " ">>
sIntroFrom == <<"I", "'", "m", " ", "f", "r", "o", "m", " ">>
sCoTwo == <<"H", "P">>
sCoThree == <<"I", "B", "M">>
sCoNine == <<"A", "c", "m", "e", " ", "C", "o", "r", "p">>
sCoLong ==
  <<"I", "n", "t", "e", "r", "n", "a", "t", "i", "o", "n", "a", "l", " ", "B",
    "u", "s", "i", "n", "e", "s", "s", " ", "M", "a", "c", "h", "i", "n", "e",
    "s", " ", "C", "o", "r", "p", "o", "r", "a", "t", "i", "o", "n">>
sAfterPlease ==
  <<" ", "p", "l", "e", "a", "s", "e", " ", "c", "a", "l", "l", " ", "m",
    "e">>
CompanyIntros == {sIntroCompany, sIntroWork, sIntroFrom}
CompanyNames == {sCoTwo, sCoThree, sCoNine, sCoLong}
CompanyAfters == {<<>>, sAfterPlease}
CompanyTranscripts ==
  {intro \o company \o after :
     intro \in CompanyIntros, company \in CompanyNames,
     after \in CompanyAfters}

\* a transcript with the characters of markup in it
sInjection ==
  <<"<", "b", ">", "M", "y", " ", "n", "a", "m", "e", " ", "i", "s", " ", "A",
    "n", "n", " ", "L", "e", "e", "<", "/", "b", ">", " ", "&", " ", "m", "y",
    " ", "c", "o", "m", "p", "a", "n", "y", " ", "i", "s", " ", "\"", "A",
    "c", "m", "e", "\"", " ", "p", "h", "o", "n", "e", " ", "5", "5", "5",
    "-", "1", "2", "3", "-", "4", "5", "6", "7", " ", "o", "r", " ", "'", "a",
    "n", "n", "@", "x", ".", "i", "o", "'">>

\* the transcripts parseContactInfo is applied to
ExtractInputs ==
  Transcripts \cup {sScenario1, sInjection} \cup EmailTranscripts
    \cup SpokenTranscripts \cup PhoneTranscripts \cup CompanyTranscripts

\* the speech-to-text API has just returned one of the transcripts to a
\* request of u1
InitExtract ==
  /\ InitStore
  /\ [userId |-> "u2", workspaceId |-> 1, role |-> "MEMBER"] \in memberships
  /\ ghlConfigured = TRUE
  /\ openaiKey = sSecretKey
  /\ \E text \in ExtractInputs :
       reqs = [r \in Slots |->
         IF r = 1
           THEN [Idle EXCEPT !.kind = "transcribe", !.method = "POST",
                             !.user = "u1", !.body = "webm", !.sttCalls = 1,
                             !.transcript = text, !.pc = "parse"]
           ELSE Idle]
  /\ NoClient

NextExtract ==
  \E r \in Slots :
    \/ TranscribeParse(r)
    \/ EnsureRead(r)
    \/ EnsureDefault(r)
    \/ TranscribeLog(r)

\* parseContactInfo applied to each of the transcripts, and the handler's way
\* from there to its response
SpecExtract == InitExtract /\ [][NextExtract]_vars

\* ================================================== properties: client
\* C1: every POST to /api/submit-contact was sent by the Submit handler of
\* the review form (handleEditSubmit); the completion of a transcription
\* sends none, whatever the draft holds.
C1_SubmitOnlyOnConfirm ==
  \A i \in 1..Len(posts) : posts[i].by = "handleEditSubmit"

\* C1 failing run: Home sent a POST although the user only started and
\* stopped a recording
C1_Witness ==
  /\ page = "Home"
  /\ posts # <<>>
  /\ clicks = 2

\* ================================================== properties: server
IsSubmit(r) == reqs[r].kind = "submit"
IsDelete(r) == reqs[r].kind = "contacts" /\ reqs[r].method = "DELETE"
IsDone(r) == reqs[r].pc = "done"

\* both attempts of request r were made and neither resolved
AllRejected(r) ==
  /\ IsSubmit(r)
  /\ Len(reqs[r].calls) = 2
  /\ \A i \in 1..2 : ~Resolved(reqs[r].calls[i].outcome)

\* the workspaces user u is a member of
MemberWorkspaces(u) == {m.workspaceId : m \in {n \in memberships : n.userId = u}}

\* the rows of workspace w
RowsOf(w) == {c \in DOMAIN contacts : contacts[c].workspaceId = w}

\* the request that takes the step
Steps(r) == reqs'[r] # reqs[r]

\* C2 (as stated): when every attempted variant fails, the status surfaced to
\* the caller is the one of the last attempted variant (the JSON attempt).
C2_LastErrorSurfaced ==
  \A r \in Slots :
    AllRejected(r) /\ IsDone(r) =>
      /\ reqs[r].resp.code = 500
      /\ reqs[r].resp.status =
           (IF reqs[r].calls[2].outcome = NetErr THEN 500 ELSE reqs[r].calls[2].outcome)

\* C2 (amended): when both attempts fail, the caller gets a 500 whose upstream
\* status is the one of the first attempt, the URL-encoded form (or 500 when
\* that attempt got no response at all).
C2_FirstErrorSurfaced ==
  \A r \in Slots :
    AllRejected(r) =>
      /\ IsDone(r)
      /\ reqs[r].resp.code = 500
      /\ reqs[r].resp.error = "Failed to submit contact to GHL"
      /\ reqs[r].resp.status =
           (IF reqs[r].calls[1].outcome = NetErr THEN 500 ELSE reqs[r].calls[1].outcome)

\* C2 witness: both attempts failed, with different errors
C2_Witness ==
  \E r \in Slots :
    /\ AllRejected(r)
    /\ IsDone(r)
    /\ reqs[r].calls[1].outcome = 400
    /\ reqs[r].calls[2].outcome = NetErr

\* C3: the webhook calls of one request are made one after the other: the
\* URL-encoded form first, the JSON one only after the form attempt failed,
\* none after an attempt that returned 2xx-3xx; at most two calls.
C3_SequentialAttempts ==
  \A r \in Slots :
    LET calls == reqs[r].calls
    IN  /\ Len(calls) <= 2
        /\ Len(calls) >= 1 => calls[1].variant = "form"
        /\ Len(calls) = 2 =>
             /\ calls[2].variant = "json"
             /\ ~Resolved(calls[1].outcome)
        /\ reqs[r].pc = "json" => Len(calls) = 1
        /\ reqs[r].pc = "form" => Len(calls) = 0
        /\ reqs[r].pc \in {"create", "count", "log"} =>
             Resolved(calls[Len(calls)].outcome)

\* C3 witness: a request made both calls, and one that stopped after the first
C3_Witness ==
  /\ \E r \in Slots : Len(reqs[r].calls) = 2 /\ reqs[r].calls[2].outcome = 200
  /\ \E r \in Slots : Len(reqs[r].calls) = 1 /\ reqs[r].calls[1].outcome = 302
                      /\ IsDone(r)

\* request r was accepted by the JSON attempt after the form attempt failed,
\* and saved its contact row
SavedBySecond(r) ==
  /\ IsSubmit(r)
  /\ Len(reqs[r].calls) = 2
  /\ Resolved(reqs[r].calls[2].outcome)
  /\ reqs[r].savedContact \in DOMAIN contacts

\* C4 (as stated): the form attempt rejected and the JSON attempt accepted with
\* status s: the status of the persisted contact row reflects s, that is, rows
\* saved after different accepting codes carry different statuses.
C4_RowStatusReflectsCode ==
  \A r \in Slots : \A q \in Slots :
    /\ SavedBySecond(r) /\ SavedBySecond(q)
    /\ reqs[r].calls[2].outcome # reqs[q].calls[2].outcome
    => contacts[reqs[r].savedContact].status # contacts[reqs[q].savedContact].status

\* C4 (amended): the form attempt rejected and the JSON attempt accepted with
\* status s: the caller gets 200, success: true and status s; the contact row
\* the request saved has status PROCESSED whatever s is, and it is the
\* usage-log row of the request that records s.
C4_SecondVariantAccepted ==
  \A r \in Slots :
    /\ IsSubmit(r)
    /\ Len(reqs[r].calls) = 2
    /\ Resolved(reqs[r].calls[2].outcome)
    =>
    LET s == reqs[r].calls[2].outcome
    IN  /\ IsDone(r) =>
             /\ reqs[r].resp.code = 200
             /\ reqs[r].resp.success
             /\ reqs[r].resp.status = s
        /\ reqs[r].savedContact \in DOMAIN contacts =>
             contacts[reqs[r].savedContact].status = "PROCESSED"
        /\ \A l \in usageLogs :
             l.contactId = reqs[r].savedContact /\ l.contactId # 0 => l.ghlStatus = s

\* C4 witness: such a request finished, 302 from the JSON attempt, row and
\* usage-log row written
C4_Witness ==
  \E r \in Slots :
    /\ IsSubmit(r)
    /\ IsDone(r)
    /\ Len(reqs[r].calls) = 2
    /\ reqs[r].calls[1].outcome = 400
    /\ reqs[r].calls[2].outcome = 302
    /\ reqs[r].savedContact \in DOMAIN contacts
    /\ \E l \in usageLogs : l.contactId = reqs[r].savedContact

\* C5: the webhook rejected both variants: the response is the 500 delivery
\* error, and the request created no contact row, changed no contactCount and
\* appended no usage-log row.
C5_AllRejectedNoWrites ==
  \A r \in Slots :
    AllRejected(r) =>
      /\ IsDone(r)
      /\ reqs[r].resp.code = 500
      /\ ~reqs[r].resp.success
      /\ reqs[r].savedContact = 0
      /\ reqs[r].writes \cap {"contact", "count", "log"} = {}
      /\ \A l \in usageLogs : l.action = "submit_contact" => Resolved(l.ghlStatus)

\* C5 witness: both variants rejected for a caller whose workspace was resolved
C5_Witness ==
  \E r \in Slots :
    /\ AllRejected(r)
    /\ reqs[r].workspace # NoWs
    /\ reqs[r].resp.code = 500

\* the body fails validation, stated on the body itself: name or phone missing
\* or blank, name too long, phone off the pattern, e-mail malformed, company
\* or notes too long
IsText(f) == f.t = "string" /\ f.v # <<>>
BodyFailsValidation(b) ==
  LET d == BodyOf(b)
  IN  \/ ~IsText(d.name) \/ \A i \in 1..Len(d.name.v) : d.name.v[i] \in WhiteSpace
      \/ Len(d.name.v) > MaxNameLen
      \/ ~IsText(d.phone) \/ \A i \in 1..Len(d.phone.v) : d.phone.v[i] \in WhiteSpace
      \/ LET p == IF d.phone.v[1] = "+" THEN Tail(d.phone.v) ELSE d.phone.v
         IN  \/ Len(p) < MinPhoneLen \/ Len(p) > MaxPhoneLen
             \/ \E i \in 1..Len(p) : p[i] \notin Digits \cup WhiteSpace \cup {"-", "(", ")"}
      \/ IsText(d.email) /\ ~EmailFormatOk(d.email.v)
      \/ IsText(d.company) /\ Len(d.company.v) > MaxCompanyLen
      \/ IsText(d.notes) /\ Len(d.notes.v) > MaxNotesLen

\* C6: an authenticated POST whose body fails validation is answered 400 at
\* once: no webhook call, no workspace lookup or creation, no write.
C6_InvalidBodyRejectedFirst ==
  \A r \in Slots :
    /\ IsSubmit(r)
    /\ reqs[r].method = "POST"
    /\ reqs[r].user # NoSession
    /\ BodyFailsValidation(reqs[r].body)
    =>
    /\ IsDone(r)
    /\ reqs[r].resp.code = 400
    /\ reqs[r].calls = <<>>
    /\ reqs[r].workspace = NoWs
    /\ reqs[r].writes = {}

\* C6 witness: a body whose phone is off the pattern has been rejected
C6_Witness ==
  \E r \in Slots :
    /\ IsSubmit(r)
    /\ reqs[r].body = "badPhone"
    /\ reqs[r].resp.code = 400

Quiescent == \A r \in Slots : reqs[r].pc \in {"idle", "done"}

\* C8: no store query failing, once every request has completed the
\* contactCount of each workspace is the number of its contact rows.
C8_CountMatchesRows ==
  Quiescent =>
    \A w \in DOMAIN workspaces :
      workspaces[w].contactCount = Cardinality(RowsOf(w))

\* C8 witness: two DELETE requests for the same contact raced past the lookup;
\* one removed the row, the other found it gone
C8_Witness ==
  \E r \in Slots : \E q \in Slots :
    /\ r # q
    /\ IsDelete(r) /\ IsDelete(q)
    /\ reqs[r].id = reqs[q].id
    /\ IsDone(r) /\ IsDone(q)
    /\ reqs[r].resp.code = 200
    /\ reqs[q].resp.code = 500

\* C9, reads: the rows a GET returned are rows of a workspace of the caller
C9_ReadsScoped ==
  \A r \in Slots :
    reqs[r].kind = "contacts" /\ IsDone(r) =>
      \A i \in 1..Len(reqs[r].resp.data) :
        reqs[r].resp.data[i].workspaceId \in MemberWorkspaces(reqs[r].user)

\* C9, deletes: a row leaves the table in a step of a DELETE request for its
\* id whose caller is a member of the row's workspace
C9_DeletesScoped ==
  \A c \in DOMAIN contacts \ DOMAIN contacts' :
    \E r \in Slots :
      /\ Steps(r)
      /\ IsDelete(r)
      /\ reqs[r].id = c
      /\ contacts[c].workspaceId \in MemberWorkspaces(reqs[r].user)

\* C9, creates: a row enters the table in a step of a submit request, in the
\* workspace the request resolved, of which the caller is a member
C9_CreatesScoped ==
  \A c \in DOMAIN contacts' \ DOMAIN contacts :
    \E r \in Slots :
      /\ Steps(r)
      /\ IsSubmit(r)
      /\ contacts'[c].workspaceId = reqs[r].workspace.id
      /\ contacts'[c].workspaceId \in MemberWorkspaces(reqs[r].user)

\* C9: every contact returned to, deleted by or created by a user belongs to a
\* workspace the user is a member of; no request reads, deletes or creates a
\* contact of another workspace.
C9_WorkspaceIsolation ==
  /\ []C9_ReadsScoped
  /\ [][C9_DeletesScoped /\ C9_CreatesScoped]_vars

\* C9 witness: an owner asked to delete a contact of another workspace and
\* got 404
C9_Witness ==
  \E r \in Slots :
    /\ IsDelete(r)
    /\ IsDone(r)
    /\ reqs[r].resp.code = 404
    /\ reqs[r].id \in DOMAIN contacts
    /\ contacts[reqs[r].id].workspaceId # reqs[r].workspace.id

\* C10, rows are immutable
C10_NeverModified ==
  \A c \in DOMAIN contacts \cap DOMAIN contacts' : contacts'[c] = contacts[c]

\* C10, a row is removed only by the DELETE of an OWNER of its workspace
C10_RemovedByOwnerOnly ==
  \A c \in DOMAIN contacts \ DOMAIN contacts' :
    \E r \in Slots :
      /\ Steps(r)
      /\ IsDelete(r)
      /\ reqs[r].id = c
      /\ contacts[c].workspaceId = reqs[r].workspace.id
      /\ [userId |-> reqs[r].user, workspaceId |-> reqs[r].workspace.id,
          role |-> "OWNER"] \in memberships

\* C10, the lookup of a foreign or unknown id ends the request with 404 (with
\* the 500 of the catch when the lookup itself fails), nothing written
C10_ForeignGets404 ==
  \A r \in Slots :
    /\ Steps(r)
    /\ reqs[r].pc = "findFirst"
    /\ \/ reqs[r].id \notin DOMAIN contacts
       \/ contacts[reqs[r].id].workspaceId # reqs[r].workspace.id
    =>
    /\ reqs'[r].pc = "done"
    /\ \/ reqs'[r].resp.code = 404
       \/ reqs'[r].resp = ErrResp(500, "Failed to delete contact")
    /\ UNCHANGED <<contacts, workspaces>>

\* C10, a DELETE by ADMIN, MEMBER or VIEWER is answered 403, nothing written
C10_NonOwnerGets403 ==
  \A r \in Slots :
    IsDelete(r) /\ reqs[r].userRole \in {"ADMIN", "MEMBER", "VIEWER"} =>
      /\ IsDone(r)
      /\ reqs[r].resp.code = 403
      /\ reqs[r].writes = {}

\* C10: a contact row is never modified; it is removed only by the DELETE of a
\* caller who is OWNER of the row's workspace; a DELETE by ADMIN, MEMBER or
\* VIEWER gets 403 and the DELETE of a foreign or unknown id gets 404, contacts
\* and contactCount unchanged.
C10_DeleteGated ==
  /\ []C10_NonOwnerGets403
  /\ [][C10_NeverModified /\ C10_RemovedByOwnerOnly /\ C10_ForeignGets404]_vars

\* C10 witness: an ADMIN asked to delete a contact of the workspace, got 403
C10_Witness ==
  \E r \in Slots :
    /\ IsDelete(r)
    /\ IsDone(r)
    /\ reqs[r].userRole = "ADMIN"
    /\ reqs[r].id \in RowsOf(reqs[r].workspace.id)
    /\ reqs[r].resp.code = 403

\* C11: a contact row is created through /api/submit-contact only for a
\* caller whose role in the resolved workspace has the 'write' permission; a
\* VIEWER never creates a contact.
C11_CreateNeedsWrite ==
  \A r \in Slots :
    IsSubmit(r) /\ reqs[r].savedContact # 0 =>
      canUserPerformAction(reqs[r].workspace.role, "write")

\* C11 failing run: a caller whose only membership is VIEWER saved a contact
C11_Witness ==
  \E r \in Slots :
    /\ IsSubmit(r)
    /\ reqs[r].workspace.role = "VIEWER"
    /\ reqs[r].savedContact \in DOMAIN contacts
    /\ reqs[r].resp.code = 200

\* ================================================== properties: client
\* the recorder UI is Idle and holds no data
IdleEmpty(u) ==
  /\ ~u.isRecording /\ ~u.isProcessing /\ ~u.isEditing
  /\ u.transcription = ""
  /\ u.contactData = "null"
  /\ u.editableData = NoEditable
  /\ u.submissionResult = ""
  /\ u.error = ""

\* no recording, transcription or submission started earlier is still to
\* deliver its result into the state
NothingInFlight(u) ==
  u.media = 0 /\ u.stopped = 0 /\ u.fetches = 0 /\ u.submits = 0

\* C12: from every state of VoiceRecorder in which the user can reset (the
\* Reset button, or Cancel on the review form), the reset leads to Idle with every datum empty,
\* and nothing started before the reset is left to write data afterwards.
C12_ResetLeadsToIdle ==
  [][page = "VoiceRecorder" /\ (Reset \/ Cancel)
       => IdleEmpty(ui') /\ NothingInFlight(ui')]_vars

\* C12 failing run: the form was cancelled while its submission was in
\* flight; the transcript and the draft are gone, and the result of the
\* cancelled submission is on display
C12_Witness ==
  /\ page = "VoiceRecorder"
  /\ ui.transcription = ""
  /\ ui.contactData = "null"
  /\ ui.submissionResult # ""
  /\ posts # <<>>

\* the response of /api/transcribe with the draft d arrives at VoiceRecorder
TranscribedWith(d) ==
  /\ page = "VoiceRecorder"
  /\ ui.fetches > 0
  /\ ui' = ProcessAudioRecorder(ui, d)

\* the review form is open, filled from the draft d, and Processing is left
ReviewingDraft(u, d) ==
  /\ u.isEditing
  /\ ~u.isProcessing
  /\ u.contactData = d
  /\ FullName(u.editableData) = Trim(DraftOf(d).name)
  /\ u.editableData.phone = DraftOf(d).phone
  /\ u.editableData.email = DraftOf(d).email
  /\ u.editableData.company = DraftOf(d).company

\* C13 (as stated): whenever the transcription request succeeds, for any
\* transcript and any draft, the review form opens pre-populated from the
\* draft.
C13_AnyTranscriptOpensForm ==
  [][\A d \in DraftNames : TranscribedWith(d) => ReviewingDraft(ui', d)]_vars

\* C13 (amended): whenever the transcription request succeeds with a
\* non-empty transcript, for any draft (all fields empty included), the review
\* form opens pre-populated from the draft; on an empty transcript no form is
\* opened, Processing is left and an error message is shown.
C13_TranscriptOpensForm ==
  [][\A d \in DraftNames : TranscribedWith(d) =>
       IF DraftOf(d).transcription # ""
         THEN ReviewingDraft(ui', d)
         ELSE /\ ui'.isEditing = ui.isEditing
              /\ ~ui'.isProcessing
              /\ ui'.error = "No transcription was generated"]_vars

\* C13 witness: the form is open on a draft whose fields are all empty
C13_Witness ==
  /\ page = "VoiceRecorder"
  /\ ui.isEditing
  /\ ui.contactData = "bare"
  /\ ui.editableData = NoEditable
  /\ ui.transcription # ""

\* C14, Processing ends
C14_ProcessingEnds == ui.isProcessing ~> ~ui.isProcessing

\* C14, a submission in flight ends with a message on display
C14_SubmittingEnds == (ui.submits > 0) ~> (ui.submits = 0)

\* C14, Processing is left for Reviewing or for Idle with an error
C14_ProcessingLeftFor ==
  page = "VoiceRecorder" /\ ui.isProcessing /\ ~ui'.isProcessing =>
    ui'.isEditing \/ ui'.error # ""

\* C14, a settled submission leaves the form with its message shown
C14_SubmittingLeftFor ==
  page = "VoiceRecorder" /\ ui'.submits < ui.submits =>
    /\ ~ui'.isEditing
    /\ ui'.submissionResult \in {"Contact submitted successfully",
                                 "Contact processed but submission failed",
                                 "Submission failed"}

\* C14: pending events being delivered, the UI never stays forever in
\* Processing or Submitting: Processing is left for Reviewing or for Idle with
\* an error, and a submission sent by the form ends in Done or Error with its
\* message.
C14_NeverStuck ==
  /\ C14_ProcessingEnds
  /\ C14_SubmittingEnds
  /\ [][C14_ProcessingLeftFor /\ C14_SubmittingLeftFor]_vars

\* C14 witness: a submission sent by the form was refused; the UI is neither
\* in Processing nor in Submitting and shows the error
C14_Witness ==
  /\ page = "VoiceRecorder"
  /\ posts # <<>>
  /\ ui.submits = 0
  /\ ui.submissionResult = "Submission failed"
  /\ ~ui.isProcessing /\ ~ui.isEditing

\* ================================================== properties: /api/transcribe
IsTranscribe(r) == reqs[r].kind = "transcribe"

\* the file part of request r was handed to the speech-to-text API
Forwarded(r) == IsTranscribe(r) /\ reqs[r].sttCalls > 0

SizeAccepted(part) == part.size > 0 /\ part.size <= MaxFileSize

KeyConfigured == openaiKey # <<>> /\ openaiKey # sPlaceholderKey

C16_CallGuarded ==
  \A r \in Slots :
    Forwarded(r) =>
      /\ reqs[r].method = "POST"
      /\ reqs[r].user # NoSession
      /\ UploadOf(reqs[r].body).present
      /\ UploadOf(reqs[r].body).size > 0
      /\ KeyConfigured

C16_Answers ==
  \A r \in Slots :
    IsTranscribe(r) /\ reqs[r].method = "POST" /\ reqs[r].pc = "done" =>
      LET part == UploadOf(reqs[r].body)
          code == reqs[r].resp.code
      IN  /\ reqs[r].user = NoSession => code = 401
          /\ reqs[r].user # NoSession /\ (~part.present \/ part.size = 0)
                => code = 400
          /\ (reqs[r].user # NoSession /\ ParseForm(part).audio
                /\ part.size > 0 /\ ~KeyConfigured)
                => code = 500

\* the call of the speech-to-text API threw: the handler leaves the call
\* without a transcript
UpstreamFailed(r) == reqs[r].pc = "stt" /\ reqs'[r].pc = "done"

TranscribeRows == {l \in usageLogs : l.action = "transcribe"}
RowsLogged(r) == {l \in TranscribeRows : l.id = reqs[r].usageLog}
Answered200(r) == IsTranscribe(r) /\ IsDone(r) /\ reqs[r].resp.code = 200
AnsweredError(r) == IsTranscribe(r) /\ IsDone(r) /\ reqs[r].resp.code # 200

\* row l is scoped to the caller of r and describes its transcript and draft
RowFits(r, l) ==
  /\ l.userId = reqs[r].user
  /\ l.workspaceId \in MemberWorkspaces(reqs[r].user)
  /\ l.transcriptionLength = Len(reqs[r].transcript)
  /\ l.contactDataExtracted =
       (reqs[r].contactData.name # <<>> /\ reqs[r].contactData.phone # <<>>)

\* C17 as stated: every 200 response comes with exactly one usage row, scoped
\* to the caller's workspace, holding the transcript length and whether both
\* a name and a phone were extracted; a request that ends in an error wrote
\* none.
C17_EveryOkLogged ==
  /\ \A r \in Slots :
       /\ Answered200(r) =>
            Cardinality(RowsLogged(r)) = 1 /\ \A l \in RowsLogged(r) : RowFits(r, l)
       /\ AnsweredError(r) => RowsLogged(r) = {}
  /\ Cardinality(TranscribeRows) = Cardinality({r \in Slots : Answered200(r)})

\* C17: every 200 response to a caller whose session carries a user id comes
\* with exactly one usage row, scoped to a workspace of the caller, holding
\* the length of the transcript and whether both a name and a phone were
\* extracted; a 200 response to a session without a user id comes with none,
\* and a request that ends in an error wrote none.
C17_OkLoggedForKnownUser ==
  /\ \A r \in Slots :
       /\ Answered200(r) /\ reqs[r].user # EmptyId =>
            Cardinality(RowsLogged(r)) = 1 /\ \A l \in RowsLogged(r) : RowFits(r, l)
       /\ Answered200(r) /\ reqs[r].user = EmptyId => RowsLogged(r) = {}
       /\ AnsweredError(r) => RowsLogged(r) = {}
  /\ Cardinality(TranscribeRows) =
       Cardinality({r \in Slots : Answered200(r) /\ reqs[r].user # EmptyId})

\* a transcript with a name, a phone and a comma the sanitizer drops was
\* answered 200 and logged with its raw length, while a session without a
\* user id was answered 200 with no row
C17_Witness ==
  \E r, q \in Slots :
    /\ Answered200(r) /\ reqs[r].transcript = sAnnLeeComma
    /\ \E l \in RowsLogged(r) :
         l.contactDataExtracted /\ l.transcriptionLength = Len(sAnnLeeComma)
    /\ Answered200(q) /\ reqs[q].user = EmptyId /\ RowsLogged(q) = {}

\* ================================================== properties: record, review, submit
\* JSON.stringify(data) as /api/submit-contact reads it
BodyOfPost(p) ==
  [name |-> Str(p.name), phone |-> Str(p.phone), email |-> Str(p.email),
   company |-> Str(p.company), notes |-> p.notes]

\* the notes column of the row /api/submit-contact creates for the POST p
PersistedNotes(p) == sanitizeContactData(BodyOfPost(p)).notes

\* C18: the POST the Submit button of the review form sends makes
\* /api/submit-contact persist, as notes, the transcript of the recording the
\* reviewed draft was extracted from (as returned, or as the extractor
\* sanitized it).
C18_NotesAreTranscript ==
  [][page = "VoiceRecorder" /\ SubmitClick /\ posts' # posts =>
       LET heard == TranscriptOf(ui.contactData)
       IN  PersistedNotes(posts'[Len(posts')]) \in {heard, sanitizeInput(heard)}]_vars

\* a reviewed draft of a non-empty transcript was submitted and the
\* submission succeeded: the POST carried no notes
C18_Witness ==
  /\ page = "VoiceRecorder"
  /\ posts # <<>>
  /\ posts[1].by = "handleEditSubmit" /\ posts[1].notes = Undef
  /\ PersistedNotes(posts[1]) = <<>>
  /\ TranscriptOf(ui.contactData) = sHeard
  /\ ui.submits = 0 /\ ~ui.isEditing /\ ui.submissionResult # ""

\* ================================================== properties: parseContactInfo
\* request r holds what parseContactInfo returned for its transcript
Extracted(r) ==
  IsTranscribe(r) /\ reqs[r].sttCalls > 0 /\ reqs[r].pc \notin {"idle", "stt", "parse"}

sJohnSmith == <<"J", "o", "h", "n", " ", "S", "m", "i", "t", "h">>
sJohnSmithPhone ==
  <<"J", "o", "h", "n", " ", "S", "m", "i", "t", "h", " ", "p", "h", "o",
    "n", "e">>
sScenarioPhone ==
  <<"+", "1", "5", "5", "5", "1", "2", "3", "4", "5", "6", "7">>
sScenarioEmail ==
  <<"j", "o", "h", "n", "@", "g", "m", "a", "i", "l", ".", "c", "o", "m">>

\* C19: for the transcript of scenario 1 the extractor returns the name
\* "John Smith", the phone "+15551234567" and the e-mail "john@gmail.com".
C19_Scenario1Draft ==
  \A r \in Slots :
    Extracted(r) /\ reqs[r].transcript = sScenario1 =>
      /\ reqs[r].contactData.name = sJohnSmith
      /\ reqs[r].contactData.phone = sScenarioPhone
      /\ reqs[r].contactData.email = sScenarioEmail

\* the transcript of scenario 1 was parsed: phone and e-mail as expected, the
\* name with the word that follows it
C19_Witness ==
  \E r \in Slots :
    /\ Extracted(r) /\ reqs[r].transcript = sScenario1
    /\ reqs[r].contactData.name = sJohnSmithPhone
    /\ reqs[r].contactData.phone = sScenarioPhone
    /\ reqs[r].contactData.email = sScenarioEmail

\* C20: for a transcript that contains the address local@domain, whatever
\* legal characters the local part uses and whatever text surrounds the
\* address, the extractor returns that address in lower case.
C20_EmailExtractedLowerCased ==
  \A r \in Slots :
    Extracted(r) =>
      \A before \in EmailBefores, local \in EmailLocals,
         domain \in EmailDomains, after \in EmailAfters :
        reqs[r].transcript = before \o EmailAddress(local, domain) \o after =>
          reqs[r].contactData.email = ToLower(EmailAddress(local, domain))

\* the address a+b@x.io was parsed and came out without its plus sign, while
\* the notes show the sanitizer removed it
C20_Witness ==
  \E r \in Slots :
    /\ Extracted(r)
    /\ reqs[r].transcript = sBeforeEmail \o EmailAddress(sLocalPlus, sDomainShort)
    /\ reqs[r].contactData.email = <<"a", "b", "@", "x", ".", "i", "o">>
    /\ reqs[r].resp.code = 200

\* ws[i] is a number-word of the digitWords table, in any case
IsNumberWord(ws, i) == ToLower(ws[i]) \in NumberWords

\* the first i at which ten number-words follow one another in ws, or 0
FirstRun(ws) ==
  LET starts == {i \in 1..(Len(ws) - 9) :
                   \A j \in 0..9 : IsNumberWord(ws, i + j)}
  IN  IF starts = {} THEN 0
      ELSE CHOOSE i \in starts : \A k \in starts : i <= k

\* +1 and the digits of the ten words from ws[i]
RunPhone(ws, i) ==
  <<"+", "1">> \o [j \in 1..10 |-> digitWords(ToLower(ws[i + j - 1]))]

\* C21: for a transcript without digits, phone is set from number-words only
\* if ten of them follow one another, and is then +1 and the digits of that
\* run; number-words separated by other words give no phone.
C21_PhoneFromConsecutiveWords ==
  \A r \in Slots :
    Extracted(r) =>
      \A ws \in SpokenInputs :
        reqs[r].transcript = JoinWords(ws) =>
          reqs[r].contactData.phone =
            IF FirstRun(ws) = 0 THEN <<>> ELSE RunPhone(ws, FirstRun(ws))

\* the sentence "one for you two for me three to go four to stay and five too"
\* was parsed and came out with the phone +11424324252
C21_Witness ==
  \E r \in Slots :
    /\ Extracted(r)
    /\ reqs[r].transcript = JoinWords(ScatteredTen)
    /\ FirstRun(ScatteredTen) = 0
    /\ reqs[r].contactData.phone =
         <<"+", "1", "1", "4", "2", "4", "3", "2", "4", "2", "5", "2">>

\* C22: for a transcript that holds exactly ten digits, written plain,
\* dashed, dotted, spaced or with the area code in parentheses, phone is +1
\* followed by those ten digits.
C22_TenDigitsNormalised ==
  \A r \in Slots :
    Extracted(r) =>
      \A case \in PhoneCases :
        reqs[r].transcript = Spoken(case) =>
          reqs[r].contactData.phone =
            <<"+", "1">> \o case.area \o sExchange \o sLine

\* 999 characters of speech and then 555-123-4567 were parsed: the notes hold
\* the first 1000 characters and no phone was found
C22_Witness ==
  \E r \in Slots :
    /\ Extracted(r)
    /\ reqs[r].transcript = sBeforeLong \o Grouped("dashed", sAreaFives)
    /\ Len(reqs[r].contactData.notes) = InputLimit
    /\ reqs[r].contactData.phone = <<>>

\* one of the patterns 1 to 3 of the company matches the sanitized transcript,
\* so that the company is what that pattern captured
ExplicitMention(clean) ==
  \/ Exec(companyNameRegex, clean, TRUE).found
  \/ Exec(workAtRegex, clean, TRUE).found
  \/ Exec(fromCompanyRegex, clean, TRUE).found

MinCompany == 3
MaxCompany == 25

\* C23: a company produced by one of the explicit-mention patterns is never
\* shorter than 3 nor longer than 25 characters.
C23_ExplicitCompanyLength ==
  \A r \in Slots :
    Extracted(r) /\ ExplicitMention(sanitizeInput(reqs[r].transcript)) =>
      /\ Len(reqs[r].contactData.company) >= MinCompany
      /\ Len(reqs[r].contactData.company) <= MaxCompany

\* "my company is HP" was parsed and the company is the two letters HP
C23_Witness ==
  \E r \in Slots :
    /\ Extracted(r)
    /\ reqs[r].transcript = sIntroCompany \o sCoTwo
    /\ reqs[r].contactData.company = sCoTwo

\* with validateCompanyName between the patterns 1 to 3 and the result, what
\* they give for the transcript of a parsed request is 3 to 25 characters long
ValidatedCompanyLength ==
  \A r \in Slots :
    Extracted(r) =>
      \/ ValidatedCompany(reqs[r].contactData.notes) = <<>>
      \/ /\ Len(ValidatedCompany(reqs[r].contactData.notes)) >= MinCompany
         /\ Len(ValidatedCompany(reqs[r].contactData.notes)) <= MaxCompany

\* s holds none of the characters < > ' " &
NoMarkup(s) == \A i \in 1..Len(s) : s[i] \notin HtmlChars.cs

\* C24: whatever the transcript, no field of the draft holds one of the
\* characters < > ' " &, and the notes are at most 1000 characters long.
C24_DraftIsSanitized ==
  \A r \in Slots :
    Extracted(r) =>
      /\ NoMarkup(reqs[r].contactData.name)
      /\ NoMarkup(reqs[r].contactData.phone)
      /\ NoMarkup(reqs[r].contactData.email)
      /\ NoMarkup(reqs[r].contactData.company)
      /\ NoMarkup(reqs[r].contactData.notes)
      /\ Len(reqs[r].contactData.notes) <= InputLimit

\* a transcript with markup in it was parsed, and every field of the draft
\* was found
C24_Witness ==
  \E r \in Slots :
    /\ Extracted(r)
    /\ reqs[r].transcript = sInjection
    /\ ~NoMarkup(reqs[r].transcript)
    /\ reqs[r].contactData.name # <<>>
    /\ reqs[r].contactData.phone # <<>>
    /\ reqs[r].contactData.email # <<>>
    /\ reqs[r].contactData.company # <<>>

\* ================================================== properties: the phone forwarded
\* a phone of ten digits, in whatever delimiters, without a country code
TenDigitLocal(s) == Len(Keep(s, Digits)) = 10 /\ ~StartsWith(s, <<"+">>)

\* request r passed validateContactData and its sanitized data went to the
\* webhook
Forwarding(r) == IsSubmit(r) /\ Len(reqs[r].calls) > 0

\* the phone sent to the webhook and written to the row
ForwardedPhone(r) == sanitizeContactData(BodyOf(reqs[r].body)).phone

\* C25: the phone forwarded and persisted holds no '+', and begins with the
\* country code 1 when the phone posted is a ten-digit number without one, in
\* any delimiter style the validation accepts.
C25_PhoneGetsCountryCode ==
  \A r \in Slots :
    Forwarding(r) =>
      /\ \A i \in 1..Len(ForwardedPhone(r)) : ForwardedPhone(r)[i] # "+"
      /\ TenDigitLocal(BodyOf(reqs[r].body).phone.v) =>
           ForwardedPhone(r)[1] = "1"

\* the phone (555) 123-4567 was accepted, forwarded and persisted as it was
\* posted
C25_Witness ==
  \E r \in Slots :
    /\ Forwarding(r)
    /\ BodyOf(reqs[r].body).phone.v = sPhoneParen
    /\ validateContactData(BodyOf(reqs[r].body)).isValid
    /\ reqs[r].savedContact \in DOMAIN contacts
    /\ contacts[reqs[r].savedContact].phone = sPhoneParen

\* ================================================== properties: the default workspace
\* the users who are members of no workspace when the requests begin
NewUsers == {"u3"}

\* request r of user u got as far as ensureUserHasWorkspace
Resolving(r, u) ==
  /\ reqs[r].user = u
  /\ reqs[r].pc # "idle"
  /\ reqs[r].resp.code \notin {400, 401, 405}

\* request r was answered 500 because ensureUserHasWorkspace threw; when no
\* store query fails, only the unique index on slug makes it throw
CreationFailed(r) ==
  /\ reqs[r].pc = "done"
  /\ reqs[r].resp.code = 500
  /\ reqs[r].resp.error \in {"Internal Server Error", "Failed to transcribe audio"}

\* C26: once the concurrent requests of a user who had no workspace are over,
\* that user has exactly one workspace, as OWNER, its slug differs from every
\* other slug, and none of the requests failed because of the creation.
C26_OneDefaultWorkspace ==
  \A u \in NewUsers :
    Quiescent /\ (\E r \in Slots : Resolving(r, u)) =>
      /\ Cardinality(getUserWorkspaces(u)) = 1
      /\ \A m \in getUserWorkspaces(u) :
           /\ m.role = "OWNER"
           /\ \A w \in DOMAIN workspaces :
                w # m.workspaceId =>
                  workspaces[w].slug # workspaces[m.workspaceId].slug
      /\ \A r \in Slots : reqs[r].user = u => ~CreationFailed(r)

\* two requests of u3 are over and u3 owns two workspaces
C26_Witness ==
  /\ Quiescent
  /\ \A r \in Slots : Resolving(r, "u3")
  /\ Cardinality(getUserWorkspaces("u3")) = 2
  /\ \A m \in getUserWorkspaces("u3") : m.role = "OWNER"

\* a request of u3 was answered 500 because the other request of u3 had
\* taken the slug between its probe and its create
C26_WitnessRejected ==
  /\ Quiescent
  /\ \A r \in Slots : Resolving(r, "u3")
  /\ \E r \in Slots : CreationFailed(r)
  /\ Cardinality(getUserWorkspaces("u3")) = 1

\* ================================================== properties: the rows persisted
\* every row of the table has the status PROCESSED
RowsProcessed == \A c \in DOMAIN contacts : contacts[c].status = "PROCESSED"

\* a webhook attempt of request r has returned a status from 200 to 399
Delivered(r) ==
  \E i \in 1..Len(reqs[r].calls) : Resolved(reqs[r].calls[i].outcome)

\* a row enters the table in a step of a submit request that was delivered
RowsAfterDelivery ==
  \A c \in DOMAIN contacts' \ DOMAIN contacts :
    \E r \in Slots :
      /\ Steps(r)
      /\ IsSubmit(r)
      /\ Delivered(r)
      /\ reqs'[r].savedContact = c

\* C27: every contact row has the status PROCESSED and was created by a
\* /submit-contact request after one of its webhook attempts had returned a
\* status from 200 to 399; no row is ever PENDING or FAILED.
C27_OnlyDeliveredRows == []RowsProcessed /\ [][RowsAfterDelivery]_vars

\* a request whose form attempt was refused persisted its row after the JSON
\* attempt was answered 302
C27_Witness ==
  \E r \in Slots :
    /\ IsSubmit(r)
    /\ Len(reqs[r].calls) = 2
    /\ ~Resolved(reqs[r].calls[1].outcome)
    /\ reqs[r].calls[2].outcome = 302
    /\ reqs[r].savedContact \in DOMAIN contacts
    /\ contacts[reqs[r].savedContact].status = "PROCESSED"

\* ================================================== properties: the counter under faults
\* C28: whenever no request is in flight, the contactCount of a workspace is
\* the number of its contact rows, even when single writes of a submit or a
\* delete request fail.
C28_CountSurvivesFaults ==
  \A w \in DOMAIN workspaces :
    Quiescent => Cardinality(RowsOf(w)) = workspaces[w].contactCount

\* a submit request wrote its row, the update of the counter failed, and the
\* request was answered 200: the workspace has one row more than it counts
C28_Witness ==
  \E r \in Slots :
    /\ Quiescent
    /\ IsSubmit(r)
    /\ reqs[r].resp.code = 200
    /\ reqs[r].savedContact \in DOMAIN contacts
    /\ "count" \notin reqs[r].writes
    /\ Cardinality(RowsOf(reqs[r].workspace.id))
         > workspaces[reqs[r].workspace.id].contactCount

\* ================================================== properties: the recorder
\* C29: in VoiceRecorder isRecording and isProcessing are never both true and
\* at most one MediaRecorder is recording, however the clicks of the user
\* interleave with the grants of the microphone.
C29_OneRecorderOneMode ==
  page = "VoiceRecorder" =>
    /\ ~(ui.isRecording /\ ui.isProcessing)
    /\ ui.recorders <= 1

\* Start was clicked twice before the microphone was granted, and both grants
\* have arrived: two recorders are recording
C29_Witness ==
  /\ page = "VoiceRecorder"
  /\ clicks = 2
  /\ ui.media = 0
  /\ ui.recorders = 2
  /\ ui.isRecording

\* the first recording was stopped before the second grant arrived: the
\* component is recording and processing at once
C29_WitnessBothModes ==
  /\ page = "VoiceRecorder"
  /\ ui.isRecording /\ ui.isProcessing
  /\ ui.recorders = 1

\* ================================================== properties: the answer of /transcribe
\* request r is past the speech-to-text call, which returned a transcript, and
\* past parseContactInfo: it resolves the workspace or writes the usage log
AfterStt(r) ==
  /\ IsTranscribe(r)
  /\ reqs[r].pc \in {"ws_read", "ws_slug", "ws_create", "ws_default", "tlog"}

\* the usage-log row of the request is in the store
Logged(rec, logs) ==
  /\ "log" \in rec.writes
  /\ \E row \in logs : row.id = rec.usageLog /\ row.action = "transcribe"

\* the response carries the transcript and the draft
Returned(rec) == rec.resp.code = 200 /\ rec.resp.success

\* the response is the 500 of the catch
Failed500(rec) == rec.resp.code = 500 /\ ~rec.resp.success

\* the step answers request r, the workspace resolved and the log written
AnsweredAfterLog(r) ==
  IF reqs'[r].workspace # NoWs /\ Logged(reqs'[r], usageLogs')
    THEN Returned(reqs'[r])
    ELSE Failed500(reqs'[r])

AnswerAfterLog ==
  \A r \in Slots :
    AfterStt(r) /\ reqs'[r].pc = "done" => AnsweredAfterLog(r)

AnswerAfterLogWithUser ==
  \A r \in Slots :
    AfterStt(r) /\ reqs'[r].pc = "done" =>
      IF reqs[r].user = EmptyId
        THEN /\ Returned(reqs'[r])
             /\ reqs'[r].workspace = NoWs
             /\ ~Logged(reqs'[r], usageLogs')
        ELSE AnsweredAfterLog(r)

\* C30 as stated: a request that got its transcript is answered with the
\* transcript and the draft only with the workspace resolved and the usage
\* log written; in every other case it is answered 500.
C30_AnswerAfterLog == [][AnswerAfterLog]_vars

\* C30: for a session with a user id, the transcript and the draft are
\* returned only with the workspace resolved and the usage log written, and
\* a failure of either is answered 500; for a session whose user id is empty
\* the resolution yields no workspace, no log is written and 200 is answered.
C30_AnswerAfterLogWithUser == [][AnswerAfterLogWithUser]_vars

\* the workspace was resolved, the write of the usage log failed and the
\* request that had its transcript was answered 500
C30_Witness ==
  \E r \in Slots :
    /\ IsTranscribe(r) /\ IsDone(r)
    /\ reqs[r].user # EmptyId
    /\ reqs[r].transcript # <<>>
    /\ reqs[r].workspace # NoWs
    /\ ~Logged(reqs[r], usageLogs)
    /\ Failed500(reqs[r])
====
